---------------------------- MODULE Spec2Model ----------------------------
(***************************************************************************)
(* ROAM terrain patches of rts/Map/SMF/ROAM/Patch.cpp: the triangle-node   *)
(* arenas (CTriNodePool), the binary triangle trees of a Patch, Split,     *)
(* the variance tables and Tessellate.                                     *)
(*                                                                         *)
(* Pointers are node ids: Null is the null pointer, baseLeft(p) and        *)
(* baseRight(p) are the two root nodes embedded in patch p, and            *)
(* PoolNode(sp, thr, i) is &pools[sp][thr].pool[i].  Heights are integers  *)
(* and variances are counted in thousandths (0.001f is 1), so that the     *)
(* float arithmetic of the source is exact integer arithmetic here.        *)
(***************************************************************************)
EXTENDS Integers, Sequences, FiniteSets, TLC

\* ------------------------------------------------------------------ bounds
\* log2 of PATCH_SIZE (Patch.h; 7 in the source, scaled down)
PatchLog == 2
\* number of patches of the mesh
NumPatches == 2
\* largest value ThreadPool::GetMaxThreads() returns
MaxThreads == 4
\* largest thread count with which the arenas are exercised slot by slot
MaxPassThreads == 3
\* NEW_POOL_SIZE (Patch.h), scaled down: the size the pools are created with
NEW_POOL_SIZE == 3
\* largest newPoolSize an outside caller passes to InitPools
MaxRequest == 4

\* MAX_POOL_SIZE / NEW_POOL_SIZE at start-up (8 in the source, scaled down)
MaxPoolFactor == 4

PATCH_SIZE == 2 ^ PatchLog
\* RecursComputeVariance stops recursing below 4x4, which is VARIANCE_DEPTH levels
VARIANCE_DEPTH == IF PatchLog >= 2 THEN 2 * PatchLog - 2 ELSE 1
Patches == 1 .. NumPatches

Max(a, b) == IF a >= b THEN a ELSE b
Min(a, b) == IF a <= b THEN a ELSE b
Abs(a) == IF a >= 0 THEN a ELSE 0 - a
\* sequencing: F applied to the value of v, v evaluated once
Then(v, F(_)) == CHOOSE r \in {F(x) : x \in {v}} : TRUE
\* pools[shadowPass]: bool used as an array index
PassIdx(shadowPass) == IF shadowPass THEN 1 ELSE 0

\* ------------------------------------------------------------------ nodes
Null == 0
baseLeft(p) == 2 * p - 1
baseRight(p) == 2 * p
\* capacity no arena of the model exceeds
MaxCap == Max(MaxPoolFactor * NEW_POOL_SIZE, MaxRequest) + 2
FirstPoolNode == 2 * NumPatches + 1
\* &pools[shadowPass][thr].pool[i]
PoolNode(shadowPass, thr, i) == FirstPoolNode + (PassIdx(shadowPass) * MaxThreads + thr) * MaxCap + i
RootIds == 1 .. 2 * NumPatches
PoolIds == FirstPoolNode .. (FirstPoolNode + 2 * MaxThreads * MaxCap - 1)
NodeIds == RootIds \cup PoolIds

\* TriTreeNode(): every link is null
TriTreeNode == [LeftChild |-> Null, RightChild |-> Null, BaseNeighbor |-> Null, LeftNeighbor |-> Null, RightNeighbor |-> Null]
IsLeaf(n) == n.LeftChild = Null /\ n.RightChild = Null
IsBranch(n) == ~IsLeaf(n)

VARIABLES
  nodes,           \* the TriTreeNode objects: patch roots and arena slots, by node id
  pools,           \* pools[shadowPass]: the vector of arenas [size, nextTriNodeIdx]
  CUR_POOL_SIZE,   \* static size_t CUR_POOL_SIZE
  MAX_POOL_SIZE,   \* static size_t MAX_POOL_SIZE
  numThreads,      \* ThreadPool::GetMaxThreads()
  retry,           \* the InitPools call a bad_alloc handler is about to make, or NoRetry
  currentPool,     \* Patch::currentPool, per patch
  vertices,        \* the y components of Patch::vertices, per patch
  varianceLeft,    \* Patch::varianceLeft, per patch
  varianceRight,   \* Patch::varianceRight, per patch
  isDirty,         \* Patch::isDirty, per patch
  indices,         \* Patch::indices, per patch
  va,              \* the vertex array DrawBorder fills (GetVertexArray())
  requested,       \* per pass: the newPoolSize of the latest InitPools call for it
  allocFailed,     \* per patch: an Allocate of one of its Split calls has failed since its Reset
  used,            \* per patch: the passes whose arenas it took nodes from since its Reset
  frame,           \* the patches tessellated since the last ResetAll, and with what camera
  last             \* the last call: its result and what its Allocate calls did

vars == <<nodes, pools, CUR_POOL_SIZE, MAX_POOL_SIZE, numThreads, retry, currentPool, vertices, varianceLeft, varianceRight, isDirty, indices, va, requested, allocFailed, used, frame, last>>

NoRetry == [pending |-> FALSE, shadowPass |-> FALSE, newPoolSize |-> 0]
NoPool == [bound |-> FALSE, shadowPass |-> FALSE, thr |-> 0]

\* ----------------------------------------------------------- CTriNodePool
\* The program state the arena functions and Split work on, with the log of
\* the Allocate and Split calls made so far by the running operation.
World == [nodes |-> nodes, pools |-> pools, cur |-> CUR_POOL_SIZE, max |-> MAX_POOL_SIZE, retry |-> retry, req |-> requested, allocs |-> <<>>, splits |-> <<>>, ret |-> TRUE, overflow |-> FALSE,
   relinks |-> 0, legal |-> TRUE, visits |-> {}]

\* the arena a pool handle names
PoolAt(w, cp) == w.pools[cp.shadowPass][cp.thr + 1]

\* CTriNodePool::OutOfNodes: no pair of slots is left
OutOfNodes(pl) == pl.size - pl.nextTriNodeIdx < 2

\* CTriNodePool::CTriNodePool(poolSize): poolSize default-constructed nodes
NewPool(poolSize) == [size |-> poolSize, nextTriNodeIdx |-> 0]

\* the node ids of slots lo .. hi-1 of arena (shadowPass, thr)
Slots(shadowPass, thr, lo, hi) == {PoolNode(shadowPass, thr, i) : i \in lo .. (hi - 1)}

\* memset(&pool[lo], 0, sizeof(TriTreeNode) * (hi - lo)) in arena (shadowPass, thr)
ZeroNodes(ns, shadowPass, thr, lo, hi) ==
  [id \in DOMAIN ns |-> IF id >= PoolNode(shadowPass, thr, lo) /\ id < PoolNode(shadowPass, thr, hi) THEN TriTreeNode ELSE ns[id]]

\* Reset that rewinds the watermark without clearing the slots
ResetKeepsNodes(w, shadowPass, thr) ==
  [w EXCEPT !.pools[shadowPass][thr + 1].nextTriNodeIdx = 0]

\* CTriNodePool::Reset of arena (shadowPass, thr)
Reset(w, shadowPass, thr) ==
  [w EXCEPT !.nodes = IF w.pools[shadowPass][thr + 1].nextTriNodeIdx > 0
                      THEN ZeroNodes(@, shadowPass, thr, 0, w.pools[shadowPass][thr + 1].nextTriNodeIdx)
                      ELSE @,
            !.pools[shadowPass][thr + 1].nextTriNodeIdx = 0]

\* one entry of the log of Allocate calls
AllocEntry(w, cp, ret, l, r) ==
  [pool |-> cp, size |-> PoolAt(w, cp).size, before |-> PoolAt(w, cp).nextTriNodeIdx, ret |-> ret, left |-> l, right |-> r,
   zeroed |-> (ret => (w.nodes[l] = TriTreeNode /\ w.nodes[r] = TriTreeNode))]

\* Allocate that takes the arena to be exhausted only once the watermark has passed its end
AllocateOffByOne(w, cp) ==
  IF PoolAt(w, cp).nextTriNodeIdx > PoolAt(w, cp).size
  THEN [w |-> [w EXCEPT !.allocs = Append(@, AllocEntry(w, cp, FALSE, Null, Null))],
        ret |-> FALSE, left |-> Null, right |-> Null]
  ELSE [w |-> [w EXCEPT !.pools[cp.shadowPass][cp.thr + 1].nextTriNodeIdx = @ + 2,
                        !.allocs = Append(@, AllocEntry(w, cp, TRUE, PoolNode(cp.shadowPass, cp.thr, PoolAt(w, cp).nextTriNodeIdx),
                                                        PoolNode(cp.shadowPass, cp.thr, PoolAt(w, cp).nextTriNodeIdx + 1)))],
        ret |-> TRUE,
        left |-> PoolNode(cp.shadowPass, cp.thr, PoolAt(w, cp).nextTriNodeIdx),
        right |-> PoolNode(cp.shadowPass, cp.thr, PoolAt(w, cp).nextTriNodeIdx + 1)]

\* CTriNodePool::Allocate(left, right): the result and the two out-parameters
Allocate(w, cp) ==
  IF OutOfNodes(PoolAt(w, cp))
  THEN [w |-> [w EXCEPT !.allocs = Append(@, AllocEntry(w, cp, FALSE, Null, Null))],
        ret |-> FALSE, left |-> Null, right |-> Null]
  ELSE [w |-> [w EXCEPT !.pools[cp.shadowPass][cp.thr + 1].nextTriNodeIdx = @ + 2,
                        !.allocs = Append(@, AllocEntry(w, cp, TRUE, PoolNode(cp.shadowPass, cp.thr, PoolAt(w, cp).nextTriNodeIdx),
                                                        PoolNode(cp.shadowPass, cp.thr, PoolAt(w, cp).nextTriNodeIdx + 1)))],
        ret |-> TRUE,
        left |-> PoolNode(cp.shadowPass, cp.thr, PoolAt(w, cp).nextTriNodeIdx),
        right |-> PoolNode(cp.shadowPass, cp.thr, PoolAt(w, cp).nextTriNodeIdx + 1)]

\* thrPoolSize as the even split alone
ThrPoolSizeEvenSplit(newPoolSize, T) == newPoolSize \div T

\* the per-thread capacity InitPools computes
ThrPoolSize(newPoolSize, T) == Max(newPoolSize \div T, newPoolSize \div 3)

\* pools[shadowPass] after clear() and `built` emplace_back calls
RebuiltPools(newPoolSize, T, built) ==
  [i \in 1 .. built |-> NewPool(ThrPoolSize(newPoolSize, T) + (ThrPoolSize(newPoolSize, T) % 2))]

\* CTriNodePool::InitPools(shadowPass, newPoolSize) with T threads; built = T when
\* every arena was created, built < T when bad_alloc was thrown after that many:
\* the handler then sets MAX_POOL_SIZE and calls InitPools again (retry).
InitPools(w, shadowPass, newPoolSize, T, built) ==
  [w EXCEPT !.cur = newPoolSize,
            !.req[shadowPass] = newPoolSize,
            !.pools[shadowPass] = RebuiltPools(newPoolSize, T, built),
            !.nodes = ZeroNodes(@, shadowPass, 0, 0, MaxThreads * MaxCap),
            !.max = IF built = T THEN @ ELSE newPoolSize - (newPoolSize \div 4),
            !.retry = IF built = T THEN NoRetry
                      ELSE [pending |-> TRUE, shadowPass |-> shadowPass, newPoolSize |-> newPoolSize - (newPoolSize \div 4)]]

\* the loop of ResetAll over pools[shadowPass], one arena after the other
RECURSIVE ResetEach(_, _, _)
ResetEach(w, shadowPass, n) ==
  IF n = 0 THEN w ELSE Then(ResetEach(w, shadowPass, n - 1), LAMBDA w1 : Reset(w1, shadowPass, n - 1))

\* ResetAll after its loop
ResetAllGrow(w, shadowPass, outOfNodes, T, built) ==
  IF ~outOfNodes THEN w
  ELSE IF w.cur >= w.max THEN w
  ELSE InitPools(w, shadowPass, Min(w.cur * 2, w.max), T, built)

\* CTriNodePool::ResetAll(shadowPass)
ResetAll(w, shadowPass, T, built) ==
  Then(ResetEach(w, shadowPass, Len(w.pools[shadowPass])),
       LAMBDA w1 : ResetAllGrow(w1, shadowPass, \E i \in DOMAIN w.pools[shadowPass] : OutOfNodes(w.pools[shadowPass][i]), T, built))

\* ------------------------------------------------------------------ Patch
\* Patch::Init, "attach the two base-triangles together", on the roots as the
\* constructor of Patch left them
PatchInit(ns, p) ==
  [ns EXCEPT ![baseLeft(p)] = [TriTreeNode EXCEPT !.BaseNeighbor = baseRight(p)],
             ![baseRight(p)] = [TriTreeNode EXCEPT !.BaseNeighbor = baseLeft(p)]]

\* Patch::Reset that clears the two roots and does not attach them to each other
PatchResetUnattached(ns, p) ==
  [ns EXCEPT ![baseLeft(p)] = TriTreeNode, ![baseRight(p)] = TriTreeNode]

\* Patch::Reset that clears the roots field by field and forgets baseRight.RightChild
PatchResetLeavesRightChild(ns, p) ==
  [ns EXCEPT ![baseLeft(p)] = [TriTreeNode EXCEPT !.BaseNeighbor = baseRight(p)],
             ![baseRight(p)] = [TriTreeNode EXCEPT !.BaseNeighbor = baseLeft(p), !.RightChild = ns[baseRight(p)].RightChild]]

\* Patch::Reset: both roots default-constructed, then attached to each other
PatchReset(ns, p) ==
  [ns EXCEPT ![baseLeft(p)] = [TriTreeNode EXCEPT !.BaseNeighbor = baseRight(p)],
             ![baseRight(p)] = [TriTreeNode EXCEPT !.BaseNeighbor = baseLeft(p)]]

\* one pointer assignment  id->field = v
Set(w, id, field, v) == [w EXCEPT !.nodes[id][field] = v]

\* the slots of node n that refer to tri
SlotsTo(w, n, tri) == {f \in {"BaseNeighbor", "LeftNeighbor", "RightNeighbor"} : w.nodes[n][f] = tri}

\* a neighbor n of tri is about to be re-pointed: one more in the count of the
\* operation, which stays legal if exactly one slot of n refers to tri
Relinking(w, n, tri) == [w EXCEPT !.relinks = @ + 1, !.legal = @ /\ Cardinality(SlotsTo(w, n, tri)) = 1]

\* Split without the re-pointing of the left neighbor
LinkLeftNeighborSkipped(w, tri) == w

\* Split, "link our left-neighbor to the new children"
LinkLeftNeighbor(w, tri) ==
  IF w.nodes[tri].LeftNeighbor = Null THEN w
  ELSE Then(Relinking(w, w.nodes[tri].LeftNeighbor, tri), LAMBDA w1 :
       IF w1.nodes[w1.nodes[tri].LeftNeighbor].BaseNeighbor = tri THEN Set(w1, w1.nodes[tri].LeftNeighbor, "BaseNeighbor", w1.nodes[tri].LeftChild)
       ELSE IF w1.nodes[w1.nodes[tri].LeftNeighbor].LeftNeighbor = tri THEN Set(w1, w1.nodes[tri].LeftNeighbor, "LeftNeighbor", w1.nodes[tri].LeftChild)
       ELSE IF w1.nodes[w1.nodes[tri].LeftNeighbor].RightNeighbor = tri THEN Set(w1, w1.nodes[tri].LeftNeighbor, "RightNeighbor", w1.nodes[tri].LeftChild)
       ELSE w1)

\* Split, "link our right-neighbor to the new children"
LinkRightNeighbor(w, tri) ==
  IF w.nodes[tri].RightNeighbor = Null THEN w
  ELSE Then(Relinking(w, w.nodes[tri].RightNeighbor, tri), LAMBDA w1 :
       IF w1.nodes[w1.nodes[tri].RightNeighbor].BaseNeighbor = tri THEN Set(w1, w1.nodes[tri].RightNeighbor, "BaseNeighbor", w1.nodes[tri].RightChild)
       ELSE IF w1.nodes[w1.nodes[tri].RightNeighbor].RightNeighbor = tri THEN Set(w1, w1.nodes[tri].RightNeighbor, "RightNeighbor", w1.nodes[tri].RightChild)
       ELSE IF w1.nodes[w1.nodes[tri].RightNeighbor].LeftNeighbor = tri THEN Set(w1, w1.nodes[tri].RightNeighbor, "LeftNeighbor", w1.nodes[tri].RightChild)
       ELSE w1)

\* Split, "fill in the information we can get from the parent", one assignment after the other
LinkChildren(w, tri) ==
  Then(Set(w, w.nodes[tri].LeftChild, "BaseNeighbor", w.nodes[tri].LeftNeighbor), LAMBDA w1 :
  Then(Set(w1, w1.nodes[tri].LeftChild, "LeftNeighbor", w1.nodes[tri].RightChild), LAMBDA w2 :
  Then(Set(w2, w2.nodes[tri].RightChild, "BaseNeighbor", w2.nodes[tri].RightNeighbor), LAMBDA w3 :
  Set(w3, w3.nodes[tri].RightChild, "RightNeighbor", w3.nodes[tri].LeftChild))))

\* LinkDiamond that links the new children to the base neighbor's, not those back
LinkDiamondOneWay(w, tri) ==
  Then(Set(w, w.nodes[tri].LeftChild, "RightNeighbor", w.nodes[w.nodes[tri].BaseNeighbor].RightChild), LAMBDA w3 :
  Set(w3, w3.nodes[tri].RightChild, "LeftNeighbor", w3.nodes[w3.nodes[tri].BaseNeighbor].LeftChild))

\* Split, the base neighbor is a branch: cross-link the four children
LinkDiamond(w, tri) ==
  Then(Set(w, w.nodes[w.nodes[tri].BaseNeighbor].LeftChild, "RightNeighbor", w.nodes[tri].RightChild), LAMBDA w1 :
  Then(Set(w1, w1.nodes[w1.nodes[tri].BaseNeighbor].RightChild, "LeftNeighbor", w1.nodes[tri].LeftChild), LAMBDA w2 :
  Then(Set(w2, w2.nodes[tri].LeftChild, "RightNeighbor", w2.nodes[w2.nodes[tri].BaseNeighbor].RightChild), LAMBDA w3 :
  Set(w3, w3.nodes[tri].RightChild, "LeftNeighbor", w3.nodes[w3.nodes[tri].BaseNeighbor].LeftChild))))

\* Split, "edge triangle, trivial case"
LinkEdge(w, tri) ==
  Then(Set(w, w.nodes[tri].LeftChild, "RightNeighbor", Null), LAMBDA w1 :
  Set(w1, w1.nodes[tri].RightChild, "LeftNeighbor", Null))

\* the return of one Split call, appended to the log of the operation
Returned(w, tri, wasBranch, ret) ==
  [w EXCEPT !.ret = ret, !.splits = Append(@, [tri |-> tri, wasBranch |-> wasBranch, ret |-> ret, isBranch |-> IsBranch(w.nodes[tri])])]

\* calls on the stack beyond which Split is taken to recurse without end
SplitFuel == 2 * NumPatches + MaxCap

\* Split: Allocate(tri->LeftChild, tri->RightChild), a being what Allocate returned
SetChildren(a, tri) == [a.w EXCEPT !.nodes[tri].LeftChild = a.left, !.nodes[tri].RightChild = a.right]

\* Patch::Split(tri) with currentPool = cp
RECURSIVE Split(_, _, _, _)
\* Split, "link our base-neighbor to the new children"
SplitBase(w, tri, cp, fuel) ==
  IF w.nodes[tri].BaseNeighbor # Null
  THEN IF IsBranch(w.nodes[w.nodes[tri].BaseNeighbor]) THEN LinkDiamond(w, tri) ELSE Split(w, w.nodes[tri].BaseNeighbor, cp, fuel - 1)
  ELSE LinkEdge(w, tri)

\* SplitForce that splits the base neighbor even when the diamond is a proper one
SplitForceAlways(w, tri, cp, fuel) ==
  IF w.nodes[tri].BaseNeighbor # Null
  THEN Split(w, w.nodes[tri].BaseNeighbor, cp, fuel - 1)
  ELSE w

\* Split, "if this triangle is not in a proper diamond, force split our base neighbor"
SplitForce(w, tri, cp, fuel) ==
  IF w.nodes[tri].BaseNeighbor # Null /\ w.nodes[w.nodes[tri].BaseNeighbor].BaseNeighbor # tri
  THEN Split(w, w.nodes[tri].BaseNeighbor, cp, fuel - 1)
  ELSE w

\* SplitLink with the failed allocation reported as success
SplitLinkReportsSuccess(a, tri, cp, fuel) ==
  IF ~a.ret THEN Then(SetChildren(a, tri), LAMBDA w2 : Returned(w2, tri, FALSE, TRUE))
  ELSE Then(SetChildren(a, tri), LAMBDA w2 :
       Then(LinkChildren(w2, tri), LAMBDA w3 :
       Then(LinkLeftNeighbor(w3, tri), LAMBDA w4 :
       Then(LinkRightNeighbor(w4, tri), LAMBDA w5 :
       Then(SplitBase(w5, tri, cp, fuel), LAMBDA w6 : Returned(w6, tri, FALSE, TRUE))))))

\* Split once Allocate has returned a
SplitLink(a, tri, cp, fuel) ==
  IF ~a.ret THEN Then(SetChildren(a, tri), LAMBDA w2 : Returned(w2, tri, FALSE, FALSE))
  ELSE Then(SetChildren(a, tri), LAMBDA w2 :
       Then(LinkChildren(w2, tri), LAMBDA w3 :
       Then(LinkLeftNeighbor(w3, tri), LAMBDA w4 :
       Then(LinkRightNeighbor(w4, tri), LAMBDA w5 :
       Then(SplitBase(w5, tri, cp, fuel), LAMBDA w6 : Returned(w6, tri, FALSE, TRUE))))))

Split(w, tri, cp, fuel) ==
  IF fuel = 0 THEN [w EXCEPT !.overflow = TRUE, !.ret = FALSE]
  ELSE IF ~IsLeaf(w.nodes[tri]) THEN Returned(w, tri, TRUE, TRUE)
  ELSE Then(SplitForce(w, tri, cp, fuel), LAMBDA w1 :
       Then(Allocate(w1, cp), LAMBDA a : SplitLink(a, tri, cp, fuel)))

\* ------------------------------------------------------- variance tables
Grid == (0 .. PATCH_SIZE) \X (0 .. PATCH_SIZE)
TableSize == 2 ^ VARIANCE_DEPTH
\* varianceLeft / varianceRight after resize(1 << VARIANCE_DEPTH)
ZeroTable == [i \in 0 .. (TableSize - 1) |-> 0]
\* (left + right) >> 1 per coordinate
Center(left, right) == <<(left[1] + right[1]) \div 2, (left[2] + right[2]) \div 2>>

\* fabs(mhgt - (hgts.x + hgts.y) * 0.5f), boosted at shore lines; in thousandths
OwnVariance(hl, hr, mhgt) ==
  IF (hl * hr < 0) \/ (hl * mhgt < 0) \/ (hr * mhgt < 0)
  THEN Max((Abs(2 * mhgt - (hl + hr)) * 500 * 3) \div 2, 20000)
  ELSE Abs(2 * mhgt - (hl + hr)) * 500

\* StoreVariance without "Variance is never zero"
StoreVarianceNoFloor(tab, node, v) ==
  [v |-> v, tab |-> IF node < TableSize THEN [tab EXCEPT ![node] = v] ELSE tab]

\* RecursComputeVariance, "store the final variance for this node"
StoreVariance(tab, node, v) ==
  [v |-> Max(1, v), tab |-> IF node < TableSize THEN [tab EXCEPT ![node] = Max(1, v)] ELSE tab]

\* Patch::RecursComputeVariance: the returned variance and the table written so far.
\* h is the height per grid position (GetHeight), variances are in thousandths.
RECURSIVE RecursComputeVariance(_, _, _, _, _, _, _)
RecursComputeVariance(tab, h, left, rght, apex, hgts, node) ==
  IF Abs(left[1] - rght[1]) >= 4 \/ Abs(left[2] - rght[2]) >= 4
  THEN Then(RecursComputeVariance(tab, h, apex, left, Center(left, rght), <<hgts[3], hgts[1], h[Center(left, rght)]>>, 2 * node), LAMBDA c1 :
       Then(RecursComputeVariance(c1.tab, h, rght, apex, Center(left, rght), <<hgts[2], hgts[3], h[Center(left, rght)]>>, 2 * node + 1), LAMBDA c2 :
       StoreVariance(c2.tab, node, Max(Max(OwnVariance(hgts[1], hgts[2], h[Center(left, rght)]), c1.v), c2.v))))
  ELSE StoreVariance(tab, node, OwnVariance(hgts[1], hgts[2], h[Center(left, rght)]))

\* Patch::ComputeVariance, the table of baseLeft
ComputeVarianceLeft(tab, h) ==
  RecursComputeVariance(tab, h, <<0, PATCH_SIZE>>, <<PATCH_SIZE, 0>>, <<0, 0>>, <<h[<<0, PATCH_SIZE>>], h[<<PATCH_SIZE, 0>>], h[<<0, 0>>]>>, 1).tab

\* Patch::ComputeVariance, the table of baseRight
ComputeVarianceRight(tab, h) ==
  RecursComputeVariance(tab, h, <<PATCH_SIZE, 0>>, <<0, PATCH_SIZE>>, <<PATCH_SIZE, PATCH_SIZE>>,
                        <<h[<<PATCH_SIZE, 0>>], h[<<0, PATCH_SIZE>>], h[<<PATCH_SIZE, PATCH_SIZE>>]>>, 1).tab

\* ------------------------------------------------------------ tessellation
\* Tessellate's LOD parameters. dist is midPos.distance(camPos), taken to be a whole
\* number: camDistLODFactor = 1 / max(1, dist * 300 / viewRadius) is lodNum / lodDen,
\* varianceMaxLimit = viewRadius * 0.35 is 350 * viewRadius thousandths.
LodParams(dist, viewRadius) ==
  [lodNum |-> viewRadius, lodDen |-> Max(viewRadius, dist * 300), varianceMaxLimit |-> 350 * viewRadius]

\* RecursTessellate's test  triVariance > 1.0f
WantsSplit(variance, lod, left, right, node) ==
  IF node < TableSize
  THEN Min(variance[node], lod.varianceMaxLimit) * PATCH_SIZE * Max(Abs(left[1] - right[1]), Abs(left[2] - right[2])) * lod.lodNum > 1000 * lod.lodDen
  ELSE 10 > 1

\* Patch::RecursTessellate
RECURSIVE RecursTessellate(_, _, _, _, _, _, _, _, _)
\* TessellateChildren that hands the heap indices to the wrong children
TessellateChildrenSwappedIndex(w, tri, left, right, apex, node, variance, lod, cp) ==
  IF IsBranch(w.nodes[tri])
  THEN Then(RecursTessellate(w, w.nodes[tri].LeftChild, apex, left, Center(left, right), 2 * node + 1, variance, lod, cp), LAMBDA w2 :
       RecursTessellate(w2, w2.nodes[tri].RightChild, right, apex, Center(left, right), 2 * node, variance, lod, cp))
  ELSE w

\* RecursTessellate after its Split call
TessellateChildren(w, tri, left, right, apex, node, variance, lod, cp) ==
  IF IsBranch(w.nodes[tri])
  THEN Then(RecursTessellate(w, w.nodes[tri].LeftChild, apex, left, Center(left, right), 2 * node, variance, lod, cp), LAMBDA w2 :
       RecursTessellate(w2, w2.nodes[tri].RightChild, right, apex, Center(left, right), 2 * node + 1, variance, lod, cp))
  ELSE w

\* RecursTessellate was entered for tri with this footprint and heap index;
\* read: it goes on to read currentVariance[node]; invoked: it calls Split(tri)
Visited(w, tri, left, right, apex, node, invoked) ==
  [w EXCEPT !.visits = @ \cup {[tri |-> tri, left |-> left, right |-> right, apex |-> apex, node |-> node,
                                read |-> ~(Abs(left[1] - right[1]) <= 1 /\ Abs(left[2] - right[2]) <= 1) /\ node < TableSize,
                                invoked |-> invoked]}]

\* RecursTessellate without "bail if we can not tessellate further"
RecursTessellateNoBail(w, tri, left, right, apex, node, variance, lod, cp) ==
  IF ~WantsSplit(variance, lod, left, right, node) THEN Visited(w, tri, left, right, apex, node, FALSE)
  ELSE Then(Split(Visited(w, tri, left, right, apex, node, TRUE), tri, cp, SplitFuel), LAMBDA w1 : TessellateChildren(w1, tri, left, right, apex, node, variance, lod, cp))

\* RecursTessellate that descends into the children of a branch it did not want to split
RecursTessellateDescendsAnyway(w, tri, left, right, apex, node, variance, lod, cp) ==
  IF Abs(left[1] - right[1]) <= 1 /\ Abs(left[2] - right[2]) <= 1 THEN Visited(w, tri, left, right, apex, node, FALSE)
  ELSE IF ~WantsSplit(variance, lod, left, right, node)
       THEN TessellateChildren(Visited(w, tri, left, right, apex, node, FALSE), tri, left, right, apex, node, variance, lod, cp)
  ELSE Then(Split(Visited(w, tri, left, right, apex, node, TRUE), tri, cp, SplitFuel), LAMBDA w1 : TessellateChildren(w1, tri, left, right, apex, node, variance, lod, cp))

RecursTessellate(w, tri, left, right, apex, node, variance, lod, cp) ==
  IF Abs(left[1] - right[1]) <= 1 /\ Abs(left[2] - right[2]) <= 1 THEN Visited(w, tri, left, right, apex, node, FALSE)
  ELSE IF ~WantsSplit(variance, lod, left, right, node) THEN Visited(w, tri, left, right, apex, node, FALSE)
  ELSE Then(Split(Visited(w, tri, left, right, apex, node, TRUE), tri, cp, SplitFuel), LAMBDA w1 : TessellateChildren(w1, tri, left, right, apex, node, variance, lod, cp))

\* Patch::coors of patch p: the patches lie side by side
Coors(p) == <<(p - 1) * PATCH_SIZE, 0>>

\* Tessellate that reports success whatever the arena holds
TessellateReportsSuccess(w, p, vl, vr, dist, viewRadius, cp) ==
  Then(RecursTessellate(w, baseLeft(p), <<Coors(p)[1], Coors(p)[2] + PATCH_SIZE>>, <<Coors(p)[1] + PATCH_SIZE, Coors(p)[2]>>, Coors(p), 1, vl, LodParams(dist, viewRadius), cp), LAMBDA w1 :
  Then(RecursTessellate(w1, baseRight(p), <<Coors(p)[1] + PATCH_SIZE, Coors(p)[2]>>, <<Coors(p)[1], Coors(p)[2] + PATCH_SIZE>>, <<Coors(p)[1] + PATCH_SIZE, Coors(p)[2] + PATCH_SIZE>>,
                        1, vr, LodParams(dist, viewRadius), cp), LAMBDA w2 :
  [w2 EXCEPT !.ret = TRUE]))

\* Patch::Tessellate(camPos, viewRadius, shadowPass) with GetPool(shadowPass) = cp; .ret is the result
Tessellate(w, p, vl, vr, dist, viewRadius, cp) ==
  Then(RecursTessellate(w, baseLeft(p), <<Coors(p)[1], Coors(p)[2] + PATCH_SIZE>>, <<Coors(p)[1] + PATCH_SIZE, Coors(p)[2]>>, Coors(p), 1, vl, LodParams(dist, viewRadius), cp), LAMBDA w1 :
  Then(RecursTessellate(w1, baseRight(p), <<Coors(p)[1] + PATCH_SIZE, Coors(p)[2]>>, <<Coors(p)[1], Coors(p)[2] + PATCH_SIZE>>, <<Coors(p)[1] + PATCH_SIZE, Coors(p)[2] + PATCH_SIZE>>,
                        1, vr, LodParams(dist, viewRadius), cp), LAMBDA w2 :
  [w2 EXCEPT !.ret = ~OutOfNodes(PoolAt(w2, cp))]))

\* ------------------------------------------------- index / border extraction
\* the index of grid position pos in Patch::vertices (counted in vertices)
VertexIndex(pos) == pos[1] + pos[2] * (PATCH_SIZE + 1)

\* Patch::RecursRender: ind with the indices of the leaves below tri pushed back
RECURSIVE RecursRender(_, _, _, _, _, _)
RecursRender(ind, ns, tri, left, right, apex) ==
  IF IsLeaf(ns[tri])
  THEN ind \o <<VertexIndex(apex), VertexIndex(left), VertexIndex(right)>>
  ELSE Then(RecursRender(ind, ns, ns[tri].LeftChild, apex, left, Center(left, right)), LAMBDA i1 :
       RecursRender(i1, ns, ns[tri].RightChild, right, apex, Center(left, right)))

\* GenerateIndices without indices.clear()
GenerateIndicesNoClear(ind, ns, p) ==
  Then(RecursRender(ind, ns, baseLeft(p), <<0, PATCH_SIZE>>, <<PATCH_SIZE, 0>>, <<0, 0>>), LAMBDA i1 :
  RecursRender(i1, ns, baseRight(p), <<PATCH_SIZE, 0>>, <<0, PATCH_SIZE>>, <<PATCH_SIZE, PATCH_SIZE>>))

\* Patch::GenerateIndices: indices.clear(), then the walks of baseLeft and baseRight
GenerateIndices(ind, ns, p) ==
  Then(RecursRender(<<>>, ns, baseLeft(p), <<0, PATCH_SIZE>>, <<PATCH_SIZE, 0>>, <<0, 0>>), LAMBDA i1 :
  RecursRender(i1, ns, baseRight(p), <<PATCH_SIZE, 0>>, <<0, PATCH_SIZE>>, <<PATCH_SIZE, PATCH_SIZE>>))

\* va->AddVertexQC(v, white) of the vertex at grid position pos
TopVertex(vs, pos) == [pos |-> pos, y |-> vs[pos], col |-> "white"]
\* va->AddVertexQC(float3(v.x, -400.0f, v.z), trans)
LowVertex(pos) == [pos |-> pos, y |-> 0 - 400, col |-> "trans"]
\* the six vertices RecursBorderRender adds for the leaf side from a to b
Skirt(vs, a, b) == <<TopVertex(vs, a), LowVertex(a), TopVertex(vs, b), TopVertex(vs, b), LowVertex(a), LowVertex(b)>>

RECURSIVE RecursBorderRender(_, _, _, _, _, _, _, _, _)
\* RecursBorderRender that hands leftChild down unchanged at even depths
RecursBorderRenderSameSide(out, ns, vs, tri, left, rght, apex, depth, leftChild) ==
  IF IsLeaf(ns[tri])
  THEN IF depth % 2 = 0 THEN out \o Skirt(vs, left, rght)
       ELSE IF leftChild THEN out \o Skirt(vs, apex, left)
       ELSE out \o Skirt(vs, rght, apex)
  ELSE IF depth % 2 = 0
  THEN Then(RecursBorderRender(out, ns, vs, ns[tri].LeftChild, apex, left, Center(left, rght), depth + 1, leftChild), LAMBDA o1 :
       RecursBorderRender(o1, ns, vs, ns[tri].RightChild, rght, apex, Center(left, rght), depth + 1, leftChild))
  ELSE IF leftChild
  THEN RecursBorderRender(out, ns, vs, ns[tri].LeftChild, apex, left, Center(left, rght), depth + 1, TRUE)
  ELSE RecursBorderRender(out, ns, vs, ns[tri].RightChild, rght, apex, Center(left, rght), depth + 1, TRUE)

\* Patch::RecursBorderRender: out with the skirts of the leaves below tri on the edge
RecursBorderRender(out, ns, vs, tri, left, rght, apex, depth, leftChild) ==
  IF IsLeaf(ns[tri])
  THEN IF depth % 2 = 0 THEN out \o Skirt(vs, left, rght)
       ELSE IF leftChild THEN out \o Skirt(vs, apex, left)
       ELSE out \o Skirt(vs, rght, apex)
  ELSE IF depth % 2 = 0
  THEN Then(RecursBorderRender(out, ns, vs, ns[tri].LeftChild, apex, left, Center(left, rght), depth + 1, ~leftChild), LAMBDA o1 :
       RecursBorderRender(o1, ns, vs, ns[tri].RightChild, rght, apex, Center(left, rght), depth + 1, leftChild))
  ELSE IF leftChild
  THEN RecursBorderRender(out, ns, vs, ns[tri].LeftChild, apex, left, Center(left, rght), depth + 1, TRUE)
  ELSE RecursBorderRender(out, ns, vs, ns[tri].RightChild, rght, apex, Center(left, rght), depth + 1, TRUE)

\* one test of GenerateBorderIndices: the walk is made if the root's slot is null
BorderOf(out, ns, vs, root, slot, left, rght, apex, leftChild) ==
  IF ns[root][slot] = Null THEN RecursBorderRender(out, ns, vs, root, left, rght, apex, 1, leftChild) ELSE out

\* Patch::GenerateBorderIndices: va->Initialize(), then the four borders
GenerateBorderIndices(out, ns, vs, p) ==
  Then(BorderOf(<<>>, ns, vs, baseLeft(p), "LeftNeighbor", <<0, PATCH_SIZE>>, <<PATCH_SIZE, 0>>, <<0, 0>>, TRUE), LAMBDA o1 :
  Then(BorderOf(o1, ns, vs, baseLeft(p), "RightNeighbor", <<0, PATCH_SIZE>>, <<PATCH_SIZE, 0>>, <<0, 0>>, FALSE), LAMBDA o2 :
  Then(BorderOf(o2, ns, vs, baseRight(p), "RightNeighbor", <<PATCH_SIZE, 0>>, <<0, PATCH_SIZE>>, <<PATCH_SIZE, PATCH_SIZE>>, FALSE), LAMBDA o3 :
  BorderOf(o3, ns, vs, baseRight(p), "LeftNeighbor", <<PATCH_SIZE, 0>>, <<0, PATCH_SIZE>>, <<PATCH_SIZE, PATCH_SIZE>>, TRUE))))

\* The four root slots that face the neighbouring patches, as <<root is baseLeft, slot>>,
\* and the patch edge each faces.
EdgeSlots == {<<TRUE, "LeftNeighbor">>, <<TRUE, "RightNeighbor">>, <<FALSE, "RightNeighbor">>, <<FALSE, "LeftNeighbor">>}
OnEdge(e, pos) ==
  IF e = <<TRUE, "LeftNeighbor">> THEN pos[1] = 0
  ELSE IF e = <<TRUE, "RightNeighbor">> THEN pos[2] = 0
  ELSE IF e = <<FALSE, "RightNeighbor">> THEN pos[2] = PATCH_SIZE
  ELSE pos[1] = PATCH_SIZE

\* The roots of patch p once the mesh drawer has linked the slots in `linked` to
\* the neighbouring patches (any non-null node stands for the neighbour's root).
WithNeighbors(ns, p, linked) ==
  [ns EXCEPT ![baseLeft(p)] = [@ EXCEPT !.LeftNeighbor = IF <<TRUE, "LeftNeighbor">> \in linked THEN baseRight(p) ELSE @,
                                         !.RightNeighbor = IF <<TRUE, "RightNeighbor">> \in linked THEN baseRight(p) ELSE @],
             ![baseRight(p)] = [@ EXCEPT !.LeftNeighbor = IF <<FALSE, "LeftNeighbor">> \in linked THEN baseLeft(p) ELSE @,
                                          !.RightNeighbor = IF <<FALSE, "RightNeighbor">> \in linked THEN baseLeft(p) ELSE @]]

\* ------------------------------------------------------------ environment
\* The height maps readMap hands to UpdateHeightMap: flat, one spike in the
\* middle, a rough one that crosses the water line, one pit off the middle,
\* and an even slope through the water line.
HeightAt(k, pos) ==
  IF k = 0 THEN 0
  ELSE IF k = 1 THEN (IF pos = <<PATCH_SIZE \div 2, PATCH_SIZE \div 2>> THEN 8 ELSE 0)
  ELSE IF k = 2 THEN ((pos[1] * pos[1] + 3 * pos[2]) % 5) - 2
  ELSE IF k = 3 THEN (IF pos = <<1, 1>> THEN 0 - 6 ELSE 0)
  ELSE pos[1] + pos[2] - PATCH_SIZE
\* the maps the patches of the mesh lie on (the others lie on the flat one)
HeightMaps == 1 .. 2
HeightMap(k) == [pos \in Grid |-> HeightAt(k, pos)]
\* every map readMap may hold after a deformation
AllHeightMaps == 0 .. 4
\* the rectangles UpdateHeightMap is called with: the whole patch, two quarters of it
Rects == {[x1 |-> 0, z1 |-> 0, x2 |-> PATCH_SIZE, z2 |-> PATCH_SIZE], [x1 |-> 0, z1 |-> 0, x2 |-> PATCH_SIZE \div 2, z2 |-> PATCH_SIZE \div 2],
          [x1 |-> PATCH_SIZE \div 2, z1 |-> PATCH_SIZE \div 2, x2 |-> PATCH_SIZE, z2 |-> PATCH_SIZE]}
\* the rectangle of a deformation that covers the patch
WholePatch == [x1 |-> 0, z1 |-> 0, x2 |-> PATCH_SIZE, z2 |-> PATCH_SIZE]
\* Patch::UpdateHeightMap(rect): the y of the vertices inside rect, read from map k
UpdateHeightMap(vs, k, rect) ==
  [pos \in Grid |-> IF pos[1] >= rect.x1 /\ pos[1] <= rect.x2 /\ pos[2] >= rect.z1 /\ pos[2] <= rect.z2 THEN HeightAt(k, pos) ELSE vs[pos]]
\* camera distances and view radii handed to Tessellate: near and far, narrow and wide
Dists == {0, 4}
ViewRadii == {1, 16}

\* ------------------------------------------------------------------ state
\* the statics of Patch.cpp before any call
StaticInit ==
  [nodes |-> [id \in NodeIds |-> TriTreeNode], pools |-> [sp \in BOOLEAN |-> <<>>], cur |-> 0, max |-> NEW_POOL_SIZE * MaxPoolFactor,
   retry |-> NoRetry, req |-> [sp \in BOOLEAN |-> 0], allocs |-> <<>>, splits |-> <<>>, ret |-> TRUE, overflow |-> FALSE,
   relinks |-> 0, legal |-> TRUE, visits |-> {}]

\* the statics once the mesh drawer has called InitPools for both passes
StartedWith(T, newPoolSize) == Then(InitPools(StaticInit, FALSE, newPoolSize, T, T), LAMBDA w : InitPools(w, TRUE, newPoolSize, T, T))
\* the pools created with NEW_POOL_SIZE, as the mesh drawer does
Started(T) == StartedWith(T, NEW_POOL_SIZE)

\* What the last call is seen to have done: its result, the arena it used, and
\* what its Allocate calls returned.
NoCall == [op |-> "none", pool |-> NoPool, ret |-> TRUE, wasBranch |-> FALSE, isBranch |-> FALSE, childrenNull |-> TRUE, unchanged |-> TRUE,
           crossLinked |-> TRUE, failed |-> FALSE, allocated |-> 0, zeroed |-> TRUE, fresh |-> TRUE, overflow |-> FALSE,
           left |-> Null, right |-> Null, before |-> 0, wasOut |-> FALSE, patch |-> 0, linked |-> {},
           visitedOnce |-> TRUE, noDeeper |-> TRUE, legal |-> TRUE, relinked |-> FALSE, visits |-> {}]
NoFrame == [done |-> {}, ok |-> TRUE, reused |-> FALSE, dist |-> [p \in Patches |-> 0], viewRadius |-> 1]

Commit(w) ==
  /\ nodes' = w.nodes
  /\ pools' = w.pools
  /\ CUR_POOL_SIZE' = w.cur
  /\ MAX_POOL_SIZE' = w.max
  /\ retry' = w.retry
  /\ requested' = w.req

\* Patch::Patch and Patch::Init for every patch in ps, the pools created for T
\* threads by InitPools(shadowPass, newPoolSize)
InitSized(T, ps, newPoolSize) ==
  /\ numThreads = T
  /\ \E hm \in [ps -> HeightMaps] :
       vertices = [p \in Patches |-> HeightMap(IF p \in ps THEN hm[p] ELSE 0)]
  /\ \E w \in {StartedWith(T, newPoolSize)} :
        /\ nodes = [id \in NodeIds |-> IF \E p \in ps : id = baseLeft(p) THEN [TriTreeNode EXCEPT !.BaseNeighbor = id + 1]
                                        ELSE IF \E p \in ps : id = baseRight(p) THEN [TriTreeNode EXCEPT !.BaseNeighbor = id - 1]
                                        ELSE w.nodes[id]]
        /\ pools = w.pools
        /\ CUR_POOL_SIZE = w.cur
        /\ MAX_POOL_SIZE = w.max
        /\ retry = w.retry
        /\ requested = w.req
  /\ currentPool = [p \in Patches |-> NoPool]
  /\ varianceLeft = [p \in Patches |-> ZeroTable]
  /\ varianceRight = [p \in Patches |-> ZeroTable]
  /\ isDirty = [p \in Patches |-> TRUE]
  /\ indices = [p \in Patches |-> <<>>]
  /\ va = <<>>
  /\ used = [p \in Patches |-> {}]
  /\ allocFailed = [p \in Patches |-> FALSE]
  /\ frame = NoFrame
  /\ last = NoCall

\* Patch::Patch and Patch::Init for every patch in ps, the pools created for T threads
InitWith(T, ps) == InitSized(T, ps, NEW_POOL_SIZE)

\* the nodes of patch p's two trees
RECURSIVE Closure(_, _)
Closure(ns, S) ==
  IF ({ns[id].LeftChild : id \in S} \cup {ns[id].RightChild : id \in S}) \ {Null} \subseteq S THEN S
  ELSE Closure(ns, S \cup (({ns[id].LeftChild : id \in S} \cup {ns[id].RightChild : id \in S}) \ {Null}))
Live(ns, p) == Closure(ns, {baseLeft(p), baseRight(p)})

\* ---------------------------------------------------------------- actions
\* Patch::ComputeVariance
ComputeVarianceCall(p) ==
  /\ ~retry.pending
  /\ varianceLeft' = [varianceLeft EXCEPT ![p] = ComputeVarianceLeft(@, vertices[p])]
  /\ varianceRight' = [varianceRight EXCEPT ![p] = ComputeVarianceRight(@, vertices[p])]
  /\ isDirty' = [isDirty EXCEPT ![p] = FALSE]
  /\ last' = [NoCall EXCEPT !.op = "ComputeVariance", !.patch = p]
  /\ UNCHANGED <<indices, va, nodes, pools, CUR_POOL_SIZE, MAX_POOL_SIZE, numThreads, allocFailed, retry, currentPool, vertices, requested, used, frame>>

\* UpdateHeightMap that leaves isDirty as it was
UpdateHeightMapCallKeepsFlag(p, k, rect) ==
  /\ ~retry.pending
  /\ vertices' = [vertices EXCEPT ![p] = UpdateHeightMap(@, k, rect)]
  /\ last' = [NoCall EXCEPT !.op = "UpdateHeightMap", !.patch = p]
  /\ UNCHANGED <<indices, va, nodes, pools, CUR_POOL_SIZE, MAX_POOL_SIZE, numThreads, allocFailed, retry, currentPool, varianceLeft, varianceRight, isDirty, requested, used, frame>>

\* Patch::UpdateHeightMap(rect) once the map was deformed inside rect into map k
UpdateHeightMapCall(p, k, rect) ==
  /\ ~retry.pending
  /\ vertices' = [vertices EXCEPT ![p] = UpdateHeightMap(@, k, rect)]
  /\ isDirty' = [isDirty EXCEPT ![p] = TRUE]
  /\ last' = [NoCall EXCEPT !.op = "UpdateHeightMap", !.patch = p]
  /\ UNCHANGED <<indices, va, nodes, pools, CUR_POOL_SIZE, MAX_POOL_SIZE, numThreads, allocFailed, retry, currentPool, varianceLeft, varianceRight, requested, used, frame>>

\* Patch::GenerateIndices
GenerateIndicesCall(p) ==
  /\ ~retry.pending
  /\ indices' = [indices EXCEPT ![p] = GenerateIndices(@, nodes, p)]
  /\ last' = [NoCall EXCEPT !.op = "GenerateIndices", !.patch = p, !.before = Len(indices[p])]
  /\ UNCHANGED <<va, nodes, pools, CUR_POOL_SIZE, MAX_POOL_SIZE, numThreads, allocFailed, retry, currentPool, vertices, varianceLeft, varianceRight, isDirty, requested, used, frame>>

\* Patch::DrawBorder's GenerateBorderIndices(va) of patch p, whose root slots in
\* `linked` the mesh drawer has linked to the neighbouring patches
GenerateBorderIndicesCall(p, linked) ==
  /\ ~retry.pending
  /\ va' = GenerateBorderIndices(va, WithNeighbors(nodes, p, linked), vertices[p], p)
  /\ last' = [NoCall EXCEPT !.op = "GenerateBorderIndices", !.patch = p, !.linked = linked]
  /\ UNCHANGED <<indices, nodes, pools, CUR_POOL_SIZE, MAX_POOL_SIZE, numThreads, allocFailed, retry, currentPool, vertices, varianceLeft, varianceRight, isDirty, requested, used, frame>>

\* the children of ns[tri] and of its base neighbor are linked across the shared edge
CrossLinked(ns, tri) ==
  /\ IsBranch(ns[tri])
  /\ IsBranch(ns[ns[tri].BaseNeighbor])
  /\ ns[ns[tri].LeftChild].RightNeighbor = ns[ns[tri].BaseNeighbor].RightChild
  /\ ns[ns[tri].RightChild].LeftNeighbor = ns[ns[tri].BaseNeighbor].LeftChild
  /\ ns[ns[ns[tri].BaseNeighbor].LeftChild].RightNeighbor = ns[tri].RightChild
  /\ ns[ns[ns[tri].BaseNeighbor].RightChild].LeftNeighbor = ns[tri].LeftChild

\* the slots the Allocate calls of a log handed out
Handed(allocs) == {allocs[i].left : i \in {j \in DOMAIN allocs : allocs[j].ret}} \cup {allocs[i].right : i \in {j \in DOMAIN allocs : allocs[j].ret}}

\* the nodes below id, each with its depth in the tree, id being at depth lvl
\* below the nodes of path; a node that is its own descendant is entered once
RECURSIVE Levels(_, _, _, _)
Levels(ns, id, lvl, path) ==
  IF IsLeaf(ns[id]) \/ id \in path THEN {<<id, lvl>>}
  ELSE {<<id, lvl>>} \cup Levels(ns, ns[id].LeftChild, lvl + 1, path \cup {id}) \cup Levels(ns, ns[id].RightChild, lvl + 1, path \cup {id})
\* the nodes of all trees with their depths (roots are at depth 0)
AllLevels(ns) == UNION {Levels(ns, r, 0, {}) : r \in RootIds}
\* the Split calls on nodes `visited`, made by a Split call on tri, were on nodes no deeper than tri
NoDeeper(lv, visited, tri) ==
  \A a \in {x \in lv : x[1] \in visited}, b \in {x \in lv : x[1] = tri} : a[2] <= b[2]

\* what a call that ran on world w leaves in `last`
Call(op, tri, cp, w) ==
  [NoCall EXCEPT !.op = op, !.pool = cp, !.ret = w.ret,
                 !.wasBranch = (tri # Null /\ IsBranch(nodes[tri])),
                 !.isBranch = (tri # Null /\ IsBranch(w.nodes[tri])),
                 !.childrenNull = (tri = Null \/ (w.nodes[tri].LeftChild = Null /\ w.nodes[tri].RightChild = Null)),
                 !.unchanged = (w.nodes = nodes /\ w.pools = pools),
                 !.failed = (\E i \in DOMAIN w.allocs : ~w.allocs[i].ret),
                 !.allocated = Cardinality({i \in DOMAIN w.allocs : w.allocs[i].ret}),
                 !.zeroed = (\A i \in DOMAIN w.allocs : w.allocs[i].zeroed),
                 !.fresh = (/\ Cardinality(Handed(w.allocs)) = 2 * Cardinality({i \in DOMAIN w.allocs : w.allocs[i].ret})
                            /\ Handed(w.allocs) \subseteq Slots(cp.shadowPass, cp.thr, PoolAt(World, cp).nextTriNodeIdx, PoolAt(World, cp).size)),
                 !.crossLinked = ((tri # Null /\ IsLeaf(nodes[tri]) /\ w.ret /\ w.nodes[tri].BaseNeighbor # Null) => CrossLinked(w.nodes, tri)),
                 !.overflow = w.overflow,
                 !.legal = w.legal,
                 !.relinked = (w.relinks >= 2),
                 !.visitedOnce = (tri # Null => Cardinality({w.splits[i].tri : i \in DOMAIN w.splits}) = Len(w.splits)),
                 !.noDeeper = (tri # Null => NoDeeper(AllLevels(w.nodes), {w.splits[i].tri : i \in DOMAIN w.splits}, tri))]

\* Patch::Tessellate(camPos, viewRadius, shadowPass) run by worker thread thr
TessellateCall(p, dist, viewRadius, shadowPass, thr) ==
  /\ ~retry.pending
  /\ thr < Len(pools[shadowPass])
  /\ \E cp \in {[bound |-> TRUE, shadowPass |-> shadowPass, thr |-> thr]} :
     \E w \in {Tessellate(World, p, varianceLeft[p], varianceRight[p], dist, viewRadius, cp)} :
        /\ Commit(w)
        /\ currentPool' = [currentPool EXCEPT ![p] = cp]
        /\ used' = [used EXCEPT ![p] = @ \cup {shadowPass}]
        /\ allocFailed' = [allocFailed EXCEPT ![p] = @ \/ (\E i \in DOMAIN w.allocs : ~w.allocs[i].ret)]
        /\ last' = [Call("Tessellate", Null, cp, w) EXCEPT !.patch = p, !.visits = w.visits]
        /\ frame' = [frame EXCEPT !.done = @ \cup {p}, !.ok = @ /\ w.ret]
  /\ UNCHANGED <<indices, va, numThreads, vertices, varianceLeft, varianceRight, isDirty>>

\* Patch::Split(tri) on a node of patch p, with the arena the patch is bound to
SplitCall(p, tri) ==
  /\ ~retry.pending
  /\ currentPool[p].bound
  /\ \E cp \in {currentPool[p]} :
     \E w \in {Split(World, tri, cp, SplitFuel)} :
        /\ Commit(w)
        /\ used' = [used EXCEPT ![p] = @ \cup {cp.shadowPass}]
        /\ allocFailed' = [allocFailed EXCEPT ![p] = @ \/ (\E i \in DOMAIN w.allocs : ~w.allocs[i].ret)]
        /\ last' = Call("Split", tri, cp, w)
  /\ UNCHANGED <<indices, va, numThreads, currentPool, vertices, varianceLeft, varianceRight, isDirty, frame>>

\* Patch::Reset
PatchResetCall(p) ==
  /\ ~retry.pending
  /\ nodes' = PatchReset(nodes, p)
  /\ used' = [used EXCEPT ![p] = {}]
  /\ allocFailed' = [allocFailed EXCEPT ![p] = FALSE]
  /\ last' = [NoCall EXCEPT !.op = "PatchReset", !.wasBranch = IsBranch(nodes[baseLeft(p)]), !.failed = last.failed]
  /\ UNCHANGED <<indices, va, pools, CUR_POOL_SIZE, MAX_POOL_SIZE, numThreads, retry, currentPool, vertices, varianceLeft, varianceRight, isDirty, requested, frame>>

\* Patch::Reset of every patch in ps
RECURSIVE PatchResetAll(_, _)
PatchResetAll(ns, ps) ==
  IF ps = {} THEN ns
  ELSE Then(PatchReset(ns, CHOOSE q \in ps : TRUE), LAMBDA ns1 : PatchResetAll(ns1, ps \ {CHOOSE q \in ps : TRUE}))

\* what a ResetAll or InitPools call leaves in `last`: its pass, and whether it completed
PoolCall(op, shadowPass, w) ==
  [NoCall EXCEPT !.op = op, !.pool = [bound |-> TRUE, shadowPass |-> shadowPass, thr |-> 0], !.ret = ~w.retry.pending]

\* The start of a frame for one pass: CTriNodePool::ResetAll(shadowPass), then
\* Patch::Reset of every patch that holds nodes of that pass's arenas.
\* built < numThreads: the InitPools that ResetAll calls throws bad_alloc.
\* fr: the camera of the frame that starts.
FrameResetWith(shadowPass, built, fr) ==
  /\ ~retry.pending
  /\ \E w \in {ResetAll(World, shadowPass, numThreads, built)} :
     \E ps \in {{p \in Patches : shadowPass \in used[p]}} :
        /\ Commit([w EXCEPT !.nodes = PatchResetAll(@, ps)])
        /\ used' = [p \in Patches |-> IF p \in ps THEN {} ELSE used[p]]
        /\ allocFailed' = [p \in Patches |-> IF p \in ps THEN FALSE ELSE allocFailed[p]]
        /\ last' = PoolCall("ResetAll", shadowPass, w)
        /\ frame' = [fr EXCEPT !.done = {}, !.ok = TRUE,
                                  !.reused = (/\ \E i \in DOMAIN pools[shadowPass] : pools[shadowPass][i].nextTriNodeIdx > 0
                                              /\ ~(/\ \E i \in DOMAIN pools[shadowPass] : OutOfNodes(pools[shadowPass][i])
                                                    /\ CUR_POOL_SIZE < MAX_POOL_SIZE))]
  /\ UNCHANGED <<indices, va, numThreads, currentPool, vertices, varianceLeft, varianceRight, isDirty>>

\* the start of a frame with the camera where it was
FrameReset(shadowPass, built) == FrameResetWith(shadowPass, built, frame)

\* the start of a frame of the normal pass once the last one is complete, the
\* camera at distance dist[p] from patch p, with view radius viewRadius
FrameBegin(dist, viewRadius) ==
  /\ frame.done = Patches
  /\ FrameResetWith(FALSE, numThreads, [frame EXCEPT !.dist = dist, !.viewRadius = viewRadius])

\* the start of a frame of the normal pass with the camera at distance dist from
\* every patch, with view radius viewRadius
FrameCamera(dist, viewRadius) ==
  FrameResetWith(FALSE, numThreads, [frame EXCEPT !.dist = [p \in Patches |-> dist], !.viewRadius = viewRadius])

\* the mesh drawer's update of a patch whose heights changed
FrameComputeVariance(p) ==
  /\ isDirty[p]
  /\ ComputeVarianceCall(p)

\* worker thr tessellates patch p, once per frame, with the camera of the frame
FrameTessellate(p, thr) ==
  /\ p \notin frame.done
  /\ ~isDirty[p]
  /\ TessellateCall(p, frame.dist[p], frame.viewRadius, FALSE, thr)

\* CTriNodePool::Allocate called on arena (shadowPass, thr) with two locals as outputs
AllocateCall(shadowPass, thr) ==
  /\ ~retry.pending
  /\ thr < Len(pools[shadowPass])
  /\ \E cp \in {[bound |-> TRUE, shadowPass |-> shadowPass, thr |-> thr]} :
     \E a \in {Allocate(World, cp)} :
        /\ Commit(a.w)
        /\ last' = [Call("Allocate", Null, cp, a.w) EXCEPT !.ret = a.ret, !.left = a.left, !.right = a.right,
                                                          !.before = PoolAt(World, cp).nextTriNodeIdx,
                                                          !.wasOut = OutOfNodes(PoolAt(World, cp))]
  /\ UNCHANGED <<indices, va, numThreads, allocFailed, currentPool, vertices, varianceLeft, varianceRight, isDirty, used, frame>>

\* CTriNodePool::Reset called on arena (shadowPass, thr) alone
PoolResetCall(shadowPass, thr) ==
  /\ ~retry.pending
  /\ thr < Len(pools[shadowPass])
  /\ \E w \in {Reset(World, shadowPass, thr)} :
        /\ Commit(w)
        /\ last' = [PoolCall("Reset", shadowPass, w) EXCEPT !.pool.thr = thr]
  /\ UNCHANGED <<indices, va, numThreads, allocFailed, currentPool, vertices, varianceLeft, varianceRight, isDirty, used, frame>>

\* CTriNodePool::InitPools(shadowPass, newPoolSize) called from outside;
\* built < numThreads: bad_alloc is thrown once that many arenas exist
InitPoolsCall(shadowPass, newPoolSize, built) ==
  /\ ~retry.pending
  /\ built <= numThreads
  /\ \E w \in {InitPools(World, shadowPass, newPoolSize, numThreads, built)} :
        /\ Commit(w)
        /\ last' = PoolCall("InitPools", shadowPass, w)
  /\ UNCHANGED <<indices, va, numThreads, allocFailed, currentPool, vertices, varianceLeft, varianceRight, isDirty, used, frame>>

\* the InitPools call of the bad_alloc handler (Patch.cpp line 51)
InitPoolsRetry(built) ==
  /\ retry.pending
  /\ built <= numThreads
  /\ \E w \in {InitPools(World, retry.shadowPass, retry.newPoolSize, numThreads, built)} :
        /\ Commit(w)
        /\ last' = PoolCall("InitPoolsRetry", retry.shadowPass, w)
  /\ UNCHANGED <<indices, va, numThreads, allocFailed, currentPool, vertices, varianceLeft, varianceRight, isDirty, used, frame>>

\* ----------------------------------------------------------- specification
\* The normal pass of a mesh of one patch with one worker thread: the trees are
\* grown by Tessellate and by single Split calls, and every frame starts with
\* ResetAll (which may grow the arena) and the Patch::Reset that goes with it.
TreePatches == {1}
Init == InitWith(1, TreePatches)

Next ==
  \/ \E p \in TreePatches : ComputeVarianceCall(p)
  \/ \E p \in TreePatches, dist \in Dists, viewRadius \in ViewRadii : TessellateCall(p, dist, viewRadius, FALSE, 0)
  \/ \E p \in TreePatches : \E tri \in Live(nodes, p) : SplitCall(p, tri)
  \/ FrameReset(FALSE, numThreads)

Spec == Init /\ [][Next]_vars

\* The arenas of one pass alone, for every thread count: created at start-up, then
\* InitPools with any requested size, Allocate, Reset and ResetAll in any order;
\* each creation of the arenas may throw bad_alloc.
InitPoolsOnly == \E T \in 1 .. MaxThreads : InitWith(T, {})
InitPasses == \E T \in 1 .. MaxPassThreads : InitWith(T, {})

NextPools ==
  \/ \E newPoolSize \in 0 .. MaxRequest, built \in 0 .. MaxThreads : InitPoolsCall(FALSE, newPoolSize, built)
  \/ \E built \in 0 .. MaxThreads : InitPoolsRetry(built)
  \/ \E thr \in 0 .. (MaxThreads - 1) : AllocateCall(FALSE, thr)
  \/ \E thr \in 0 .. (MaxThreads - 1) : PoolResetCall(FALSE, thr)
  \/ \E built \in 0 .. MaxThreads : built <= numThreads /\ FrameReset(FALSE, built)

SpecPools == InitPasses /\ [][NextPools]_vars

\* The sizing of the arenas of one pass for every thread count: InitPools with
\* any requested size, from outside and from ResetAll once worker 0 has used up
\* its arena; each creation of the arenas may throw bad_alloc.
NextSizing ==
  \/ \E newPoolSize \in 0 .. MaxRequest, built \in 0 .. MaxThreads : InitPoolsCall(FALSE, newPoolSize, built)
  \/ \E built \in 0 .. MaxThreads : InitPoolsRetry(built)
  \/ AllocateCall(FALSE, 0)
  \/ \E built \in 0 .. MaxThreads : built <= numThreads /\ FrameReset(FALSE, built)

SpecSizing == InitPoolsOnly /\ [][NextSizing]_vars

\* The arenas of the two passes side by side, as the mesh drawer runs them: every
\* frame of a pass starts with ResetAll for that pass, the workers then allocate
\* from their arenas of that pass; the frames of the two passes interleave.
NextPasses ==
  \/ \E shadowPass \in BOOLEAN, thr \in 0 .. (MaxThreads - 1) : AllocateCall(shadowPass, thr)
  \/ \E shadowPass \in BOOLEAN : FrameReset(shadowPass, numThreads)

SpecPasses == InitPasses /\ [][NextPasses]_vars

\* One patch and one arena with no frame discipline: Patch::Reset, Split,
\* Tessellate and CTriNodePool::Reset in any order, so that a tree may keep
\* pointers to slots the arena has cleared and hands out again.
NextFree ==
  \/ \E p \in TreePatches : ComputeVarianceCall(p)
  \/ \E p \in TreePatches, dist \in Dists, viewRadius \in ViewRadii : TessellateCall(p, dist, viewRadius, FALSE, 0)
  \/ \E p \in TreePatches : \E tri \in Live(nodes, p) : SplitCall(p, tri)
  \/ \E p \in TreePatches : PatchResetCall(p)
  \/ PoolResetCall(FALSE, 0)

SpecFree == Init /\ [][NextFree]_vars

\* The frames of the normal pass of a mesh of NumPatches patches with as many
\* workers: each frame starts with ResetAll and Patch::Reset, then every patch is
\* tessellated once, by any worker, in any order.
InitFrame == InitWith(NumPatches, Patches)

NextFrame ==
  \/ \E p \in Patches : FrameComputeVariance(p)
  \/ \E p \in Patches, thr \in 0 .. (MaxThreads - 1) : FrameTessellate(p, thr)
  \/ \E dist \in [Patches -> Dists], viewRadius \in ViewRadii : FrameBegin(dist, viewRadius)

SpecFrame == InitFrame /\ [][NextFrame]_vars

\* One patch whose arena has room for trees of full depth: the trees are grown
\* by Tessellate with the tables ComputeVariance built for the map as deformed
\* last and the camera of the frame, and cleared at the start of a frame, which
\* places the camera, or by Patch::Reset alone.
RoomyPoolSize == MaxThreads * MaxCap
InitFine == InitSized(1, TreePatches, RoomyPoolSize)

NextFine ==
  \/ \E p \in TreePatches, k \in AllHeightMaps : UpdateHeightMapCall(p, k, WholePatch)
  \/ \E p \in TreePatches : FrameComputeVariance(p)
  \/ \E p \in TreePatches : TessellateCall(p, frame.dist[p], frame.viewRadius, FALSE, 0)
  \/ \E p \in TreePatches : PatchResetCall(p)
  \/ \E dist \in Dists, viewRadius \in ViewRadii : FrameCamera(dist, viewRadius)

SpecFine == InitFine /\ [][NextFine]_vars

\* The height cache and the variance tables of one patch: the map is deformed and
\* UpdateHeightMap called, ComputeVariance rebuilds the tables, in any order.
NextVariance ==
  \/ \E p \in TreePatches, k \in AllHeightMaps, rect \in Rects : UpdateHeightMapCall(p, k, rect)
  \/ \E p \in TreePatches : ComputeVarianceCall(p)

SpecVariance == Init /\ [][NextVariance]_vars

\* The index list of one patch: the trees are grown by Tessellate, cleared by
\* Patch::Reset alone or by the start of a frame, and GenerateIndices walks
\* whatever tree there is.
NextRender ==
  \/ \E p \in TreePatches : FrameComputeVariance(p)
  \/ \E p \in TreePatches, dist \in Dists, viewRadius \in ViewRadii : TessellateCall(p, dist, viewRadius, FALSE, 0)
  \/ \E p \in TreePatches : PatchResetCall(p)
  \/ FrameReset(FALSE, numThreads)
  \/ \E p \in TreePatches : GenerateIndicesCall(p)

SpecRender == Init /\ [][NextRender]_vars

\* The border of one patch: the trees are grown by Tessellate and cleared at the
\* start of a frame, and DrawBorder walks whatever tree there is, with any of the
\* four root slots linked to a neighbouring patch.
NextBorder ==
  \/ \E p \in TreePatches : FrameComputeVariance(p)
  \/ \E p \in TreePatches, dist \in Dists, viewRadius \in ViewRadii : TessellateCall(p, dist, viewRadius, FALSE, 0)
  \/ FrameReset(FALSE, numThreads)
  \/ \E p \in TreePatches, linked \in SUBSET EdgeSlots : GenerateBorderIndicesCall(p, linked)

SpecBorder == Init /\ [][NextBorder]_vars

\* ------------------------------------------------------------------ claims
\* the nodes of the trees of the patches of the mesh
LiveNodes == UNION {Live(nodes, p) : p \in TreePatches}

\* C1 (diamond invariant, as claimed): every branch node of a tree whose
\* BaseNeighbor is not null has a branch as its BaseNeighbor, also when the
\* arena ran out of nodes, and the Split call that split a node with a base
\* neighbor returns with the children of the two cross-linked.
C1_DiamondInvariant ==
  /\ \A id \in LiveNodes : (IsBranch(nodes[id]) /\ nodes[id].BaseNeighbor # Null) => IsBranch(nodes[nodes[id].BaseNeighbor])
  /\ (last.op = "Split") => last.crossLinked

\* every arena there is, as <<shadowPass, index into pools[shadowPass]>>
Arenas == {a \in BOOLEAN \X (1 .. MaxThreads) : a[2] <= Len(pools[a[1]])}

\* C2 (arena bound, all-or-nothing Allocate): no arena has handed out more nodes
\* since its last Reset than it holds; an Allocate call that finds fewer than two
\* free slots returns false with both outputs null and the watermark where it
\* was; a successful one hands out two nodes; never one output null and the
\* other not.
C2_ArenaBound ==
  /\ \A a \in Arenas : pools[a[1]][a[2]].nextTriNodeIdx <= pools[a[1]][a[2]].size
  /\ (last.op = "Allocate") =>
        /\ last.wasOut => (~last.ret /\ last.left = Null /\ last.right = Null /\ PoolAt(World, last.pool).nextTriNodeIdx = last.before)
        /\ ~last.wasOut => (last.ret /\ PoolAt(World, last.pool).nextTriNodeIdx = last.before + 2)
        /\ last.ret => (last.left # Null /\ last.right # Null /\ last.left # last.right)
        /\ (last.left = Null) <=> (last.right = Null)

\* C2 witness: with a capacity of 2 the second Allocate call fails
C2_SecondAllocateFails ==
  /\ last.op = "Allocate" /\ ~last.ret /\ last.left = Null /\ last.right = Null
  /\ PoolAt(World, last.pool).size = 2 /\ PoolAt(World, last.pool).nextTriNodeIdx = 2

\* C3: a Split call on a branch returns true and changes nothing; on a leaf it
\* returns true exactly if the node is a branch on return, and after a false
\* return both child pointers of the node are null.
C3_SplitResult ==
  (last.op = "Split") =>
     /\ last.wasBranch => (last.ret /\ last.unchanged)
     /\ ~last.wasBranch => (last.ret <=> last.isBranch)
     /\ ~last.ret => (~last.isBranch /\ last.childrenNull)

\* C3 witness: a Split call on a leaf failed for lack of nodes
C3_SplitFailed == last.op = "Split" /\ ~last.wasBranch /\ ~last.ret /\ last.failed

\* C4 (Tessellate's result): Tessellate returns true exactly if its arena has two
\* free slots left when it ends, and a true result means that no Allocate call
\* failed during the call (any failed allocation makes it return false).
C4_TessellateResult ==
  (last.op = "Tessellate") =>
     /\ last.ret <=> ~OutOfNodes(PoolAt(World, last.pool))
     /\ last.ret => ~last.failed
     /\ last.failed => ~last.ret

\* C4 witness: a Tessellate call during which an allocation failed
C4_TessellateRanOut == last.op = "Tessellate" /\ last.failed /\ last.allocated > 0 /\ ~last.ret

\* C6 (watermark invariant, as claimed): in every arena InitPools created the
\* watermark is even and at most the capacity, and the capacity is even and
\* greater than zero, whatever pool size was requested for however many threads.
C6_WatermarkInvariant ==
  \A a \in Arenas :
     /\ pools[a[1]][a[2]].nextTriNodeIdx % 2 = 0
     /\ pools[a[1]][a[2]].nextTriNodeIdx <= pools[a[1]][a[2]].size
     /\ pools[a[1]][a[2]].size % 2 = 0
     /\ pools[a[1]][a[2]].size > 0

\* C7 (fresh zeroed nodes): every slot at or above the watermark of its arena is
\* all null, and the Allocate calls of the last call handed out distinct slots
\* from above the watermark that the call found, each all null when handed out.
C7_FreshZeroedNodes ==
  /\ \A a \in Arenas : \A i \in pools[a[1]][a[2]].nextTriNodeIdx .. (pools[a[1]][a[2]].size - 1) :
        nodes[PoolNode(a[1], a[2] - 1, i)] = TriTreeNode
  /\ last.zeroed
  /\ last.fresh

\* C7 witness: nodes handed out by an arena that was used and then cleared by Reset
C7_ReusedArena == frame.reused /\ last.op \in {"Split", "Tessellate"} /\ last.allocated > 0

\* C8 (growth policy, as claimed): a ResetAll call for a pass that finds one of
\* the pass's arenas out of nodes while the pass's total is below the ceiling
\* recreates the arenas of that pass for min(2 x that pass's previous total,
\* ceiling); a ResetAll call that finds none out of nodes leaves the capacities
\* of the pass as they are. (The total meant is taken to be below the ceiling
\* only if both the pass's own total and CUR_POOL_SIZE are.)
C8_GrowthPolicy ==
  [][(last'.op = "ResetAll" /\ last'.ret) =>
       IF \E i \in DOMAIN pools[last'.pool.shadowPass] : OutOfNodes(pools[last'.pool.shadowPass][i])
       THEN (requested[last'.pool.shadowPass] < MAX_POOL_SIZE /\ CUR_POOL_SIZE < MAX_POOL_SIZE)
              => requested'[last'.pool.shadowPass] = Min(2 * requested[last'.pool.shadowPass], MAX_POOL_SIZE)
       ELSE /\ requested'[last'.pool.shadowPass] = requested[last'.pool.shadowPass]
            /\ \A i \in DOMAIN pools[last'.pool.shadowPass] :
                  pools'[last'.pool.shadowPass][i].size = pools[last'.pool.shadowPass][i].size]_vars

\* C9 (allocation-failure retry, as claimed): every retry of InitPools after
\* bad_alloc requests a strictly smaller size than the retry that failed before
\* it, so that the retries cannot go on forever. Stated for the sizes from
\* NEW_POOL_SIZE up, the ones the mesh drawer and ResetAll ask for.
C9_RetryShrinks ==
  [][(retry.pending /\ retry'.pending /\ retry.newPoolSize >= NEW_POOL_SIZE) => retry'.newPoolSize < retry.newPoolSize]_vars

\* C5 (pairing invariant): every root node and every arena slot has both child
\* pointers null or both non-null, whatever the order of Patch::Reset, Split,
\* Tessellate and CTriNodePool::Reset, failed allocations included.
C5_Pairing ==
  \A id \in NodeIds : (nodes[id].LeftChild = Null) <=> (nodes[id].RightChild = Null)

\* C5 witness: a Split failed for lack of nodes in a tree that has branches
C5_FailedSplitInTree ==
  /\ last.op = "Split" /\ last.failed /\ ~last.ret
  /\ \E id \in LiveNodes : IsBranch(nodes[id]) /\ nodes[id].LeftChild = nodes[id].RightChild - 1

\* the shape of the tree below node id: a leaf, or the shapes of its two children
RECURSIVE Shape(_, _)
Shape(ns, id) == IF IsLeaf(ns[id]) THEN <<>> ELSE <<Shape(ns, ns[id].LeftChild), Shape(ns, ns[id].RightChild)>>
PatchShape(ns, p) == <<Shape(ns, baseLeft(p)), Shape(ns, baseRight(p))>>

\* the state at the start of a frame: every patch reset, every arena cleared
FrameStart(ps) ==
  [World EXCEPT !.nodes = PatchResetAll([id \in NodeIds |-> TriTreeNode], Patches), !.pools = ps]

\* the arenas as they are, emptied
EmptiedPools == [sp \in BOOLEAN |-> [i \in DOMAIN pools[sp] |-> NewPool(pools[sp][i].size)]]

\* one arena that holds every node there is
AmplePools == [sp \in BOOLEAN |-> <<NewPool(2 * MaxThreads * MaxCap)>>]

Worker0 == [bound |-> TRUE, shadowPass |-> FALSE, thr |-> 0]

\* the frame with the camera and the variance tables as they are
\* when worker 0 tessellates all patches, one after the other
RECURSIVE OneWorkerFrame(_, _)
OneWorkerFrame(w, p) ==
  IF p > NumPatches THEN w
  ELSE Then(Tessellate(w, p, varianceLeft[p], varianceRight[p], frame.dist[p], frame.viewRadius, Worker0), LAMBDA w1 : OneWorkerFrame(w1, p + 1))

\* the shape patch p gets from Tessellate alone on an arena that cannot run out
IdealShape(p) ==
  PatchShape(Tessellate(FrameStart(AmplePools), p, varianceLeft[p], varianceRight[p], frame.dist[p], frame.viewRadius, Worker0).nodes, p)

C11_PatchReset ==
  (last.op = "PatchReset") =>
     \A p \in TreePatches :
        /\ IsLeaf(nodes[baseLeft(p)]) /\ IsLeaf(nodes[baseRight(p)])
        /\ nodes[baseLeft(p)].LeftNeighbor = Null /\ nodes[baseLeft(p)].RightNeighbor = Null
        /\ nodes[baseRight(p)].LeftNeighbor = Null /\ nodes[baseRight(p)].RightNeighbor = Null
        /\ nodes[baseLeft(p)].BaseNeighbor = baseRight(p) /\ nodes[baseRight(p)].BaseNeighbor = baseLeft(p)
        /\ nodes[baseLeft(p)] = PatchInit([id \in NodeIds |-> TriTreeNode], p)[baseLeft(p)]
        /\ nodes[baseRight(p)] = PatchInit([id \in NodeIds |-> TriTreeNode], p)[baseRight(p)]
        /\ PatchReset(nodes, p) = nodes

\* C11 witness: Patch::Reset of a patch whose trees were split, after an
\* allocation had failed
C11_ResetOfSplitPatch == last.op = "PatchReset" /\ last.wasBranch /\ last.failed

\* a variance table no entry of which has been written
UnwrittenTable == [i \in 0 .. (TableSize - 1) |-> 0 - 1]

\* the two variance tables of the patches of the mesh
VarianceTables == {varianceLeft[p] : p \in TreePatches} \cup {varianceRight[p] : p \in TreePatches}

\* C12 (monotonic variance): after ComputeVariance, whatever the heights, every
\* entry 1 .. 2^VARIANCE_DEPTH - 1 of both tables has been written, is at least
\* the floor 0.001 (1 thousandth) and so greater than zero, and is at least the
\* entries of its children 2n and 2n+1 where the table holds them; over all-zero
\* heights every such entry is the floor.
C12_MonotonicVariance ==
  (last.op = "ComputeVariance") =>
     /\ \A p \in TreePatches : \A i \in 1 .. (TableSize - 1) :
           /\ ComputeVarianceLeft(UnwrittenTable, vertices[p])[i] # 0 - 1
           /\ ComputeVarianceRight(UnwrittenTable, vertices[p])[i] # 0 - 1
     /\ \A t \in VarianceTables : \A i \in 1 .. (TableSize - 1) :
           /\ t[i] >= 1
           /\ (2 * i + 1 < TableSize) => (t[i] >= t[2 * i] /\ t[i] >= t[2 * i + 1])
     /\ \A p \in TreePatches : (\A pos \in Grid : vertices[p][pos] = 0) =>
           \A i \in 1 .. (TableSize - 1) : varianceLeft[p][i] = 1 /\ varianceRight[p][i] = 1

\* C12 witness: ComputeVariance stored at the root of baseLeft a variance that is
\* not the root's own but came up from a triangle below it
C12_VarianceFromBelow ==
  /\ last.op = "ComputeVariance"
  /\ \E p \in TreePatches :
        /\ varianceLeft[p][1] > 1
        /\ varianceLeft[p][1] > OwnVariance(vertices[p][<<0, PATCH_SIZE>>], vertices[p][<<PATCH_SIZE, 0>>], vertices[p][<<PATCH_SIZE \div 2, PATCH_SIZE \div 2>>])
        /\ varianceLeft[p][1] = varianceLeft[p][2] \/ varianceLeft[p][1] = varianceLeft[p][3]

\* the leaf triangles below tri, each with the footprint the walks derive for it
RECURSIVE Leaves(_, _, _, _, _)
Leaves(ns, tri, left, right, apex) ==
  IF IsLeaf(ns[tri]) THEN {[tri |-> tri, left |-> left, right |-> right, apex |-> apex]}
  ELSE Leaves(ns, ns[tri].LeftChild, apex, left, Center(left, right)) \cup Leaves(ns, ns[tri].RightChild, right, apex, Center(left, right))

\* the leaf triangles of patch p
PatchLeaves(ns, p) ==
  Leaves(ns, baseLeft(p), <<0, PATCH_SIZE>>, <<PATCH_SIZE, 0>>, <<0, 0>>) \cup Leaves(ns, baseRight(p), <<PATCH_SIZE, 0>>, <<0, PATCH_SIZE>>, <<PATCH_SIZE, PATCH_SIZE>>)

\* the sides of the leaves of patch p that lie on the patch edge e
EdgeSides(ns, p, e) ==
  {sd \in UNION {{{t.apex, t.left}, {t.apex, t.right}, {t.left, t.right}} : t \in PatchLeaves(ns, p)} : \A pos \in sd : OnEdge(e, pos)}

\* the skirts of a vertex array, six vertices each, and the top segment of skirt k
Skirts(out) == 0 .. ((Len(out) \div 6) - 1)
TopSegment(out, k) == {out[6 * k + 1].pos, out[6 * k + 3].pos}
\* the skirts of a vertex array whose top segment lies on patch edge e
SkirtsOn(out, e) == {k \in Skirts(out) : \A pos \in TopSegment(out, k) : OnEdge(e, pos)}
\* skirt k is two triangles that hang from the segment a-b down to -400
WellFormedSkirt(out, vs, k) ==
  \E a \in Grid, b \in Grid : a # b /\ SubSeq(out, 6 * k + 1, 6 * k + 6) = Skirt(vs, a, b)
\* the top segment of skirt k covers the part of edge e from i to i + 1
Covers(out, e, k, i) ==
  \E a \in TopSegment(out, k), b \in TopSegment(out, k) :
     /\ OnEdge(e, a) /\ OnEdge(e, b)
     /\ \/ a[1] = b[1] /\ a[2] <= i /\ i + 1 <= b[2]
        \/ a[2] = b[2] /\ a[1] <= i /\ i + 1 <= b[1]

\* C13 (border extraction): GenerateBorderIndices leaves in the vertex array
\* skirts of six vertices only; an edge has skirts exactly if its root slot is
\* null; with all four slots linked the array is empty; and for an edge whose slot
\* is null there is one skirt per leaf side on that edge, on that side, so that
\* every unit of the edge lies under exactly one skirt.
C13_BorderExtraction ==
  (last.op = "GenerateBorderIndices") =>
     /\ Len(va) % 6 = 0
     /\ \A k \in Skirts(va) : WellFormedSkirt(va, vertices[last.patch], k) /\ \E e \in EdgeSlots : k \in SkirtsOn(va, e)
     /\ (last.linked = EdgeSlots) => (va = <<>>)
     /\ \A e \in EdgeSlots :
           /\ (SkirtsOn(va, e) # {}) <=> (e \notin last.linked)
           /\ (e \notin last.linked) =>
                 /\ {TopSegment(va, k) : k \in SkirtsOn(va, e)} = EdgeSides(nodes, last.patch, e)
                 /\ Cardinality(SkirtsOn(va, e)) = Cardinality(EdgeSides(nodes, last.patch, e))
                 /\ \A i \in 0 .. (PATCH_SIZE - 1) : Cardinality({k \in SkirtsOn(va, e) : Covers(va, e, k, i)}) = 1

\* C13 witness: the border of a patch with one slot linked and three not, whose
\* leaves on one edge lie at different depths of the tree
C13_BorderOfUnevenEdge ==
  /\ last.op = "GenerateBorderIndices"
  /\ Cardinality(last.linked) = 1
  /\ \E e \in EdgeSlots \ last.linked : \E t1 \in PatchLeaves(nodes, last.patch), t2 \in PatchLeaves(nodes, last.patch) :
        /\ OnEdge(e, t1.left) /\ OnEdge(e, t1.right)
        /\ OnEdge(e, t2.apex) /\ (OnEdge(e, t2.left) \/ OnEdge(e, t2.right))
        /\ Cardinality(SkirtsOn(va, e)) = 2

\* the capacities of the arenas ps of one pass, added up
RECURSIVE PassCapacity(_)
PassCapacity(ps) == IF ps = <<>> THEN 0 ELSE Head(ps).size + PassCapacity(Tail(ps))

\* x rounded up to an even number
RoundedUpToEven(x) == x + (x % 2)

\* C14 (arena sizing, as claimed): once InitPools has completed for a pass, every
\* arena of the pass holds the requested total divided by the thread count,
\* raised to a third of that even split where that is more, rounded up to even;
\* and the capacities of the pass add up to at most the requested total plus one
\* per arena for the rounding.
C14_EvenSplitWithFloor ==
  ~retry.pending =>
     \A sp \in BOOLEAN :
        /\ \A i \in DOMAIN pools[sp] :
              pools[sp][i].size = RoundedUpToEven(Max(requested[sp] \div numThreads, (requested[sp] \div numThreads) \div 3))
        /\ PassCapacity(pools[sp]) <= requested[sp] + numThreads

\* C14 (amended): once InitPools has completed for a pass, the pass has one arena
\* per thread, each holding max(total / threads, total / 3) rounded up to even:
\* the even split, raised to a third of the requested total; with at most three
\* threads the capacities add up to at most the requested total plus one per
\* arena for the rounding.
C14_ThirdOfTotalFloor ==
  ~retry.pending =>
     \A sp \in BOOLEAN :
        /\ Len(pools[sp]) = numThreads
        /\ \A i \in DOMAIN pools[sp] :
              pools[sp][i].size = RoundedUpToEven(Max(requested[sp] \div numThreads, requested[sp] \div 3))
        /\ (numThreads <= 3) => PassCapacity(pools[sp]) <= requested[sp] + numThreads

\* C14 witness: InitPools was called for more than three threads, the floor of a
\* third of the total decided the capacities, and they add up to more than the
\* requested total plus rounding
C14_FloorDecides ==
  /\ last.op = "InitPools" /\ ~retry.pending /\ numThreads > 3
  /\ requested[FALSE] \div numThreads < requested[FALSE] \div 3
  /\ PassCapacity(pools[FALSE]) > requested[FALSE] + numThreads

\* C15 (termination): in every state reached from a reset patch, every Split
\* call on a node of the trees and every Tessellate call returns (the chain of
\* forced splits ends within as many calls as there are nodes); the Split calls
\* that one Split call makes, itself included, are each on a different node, none
\* deeper in its tree than the node the call was made on; also when the arena
\* runs out.
C15_Termination ==
  /\ (last.op \in {"Split", "Tessellate"}) => ~last.overflow
  /\ (last.op = "Split") => (last.visitedOnce /\ last.noDeeper)

\* C15 witness: a Split call whose chain of forced splits split two nodes or
\* more and was then cut short by the arena running out
C15_ChainCutShort == last.op = "Split" /\ ~last.wasBranch /\ last.allocated >= 2 /\ last.failed

\* C16 (illegal topology is unreachable): whenever a Split call, made directly or
\* by Tessellate or as a forced split, re-pointed a non-null LeftNeighbor or
\* RightNeighbor of the node it split, exactly one of the three neighbour slots
\* of that neighbour referred to the node; so neither "illegal neighbor" branch
\* was taken, also after the arena has run out.
C16_LegalTopology == (last.op \in {"Split", "Tessellate"}) => last.legal

\* C16 witness: a Split call that re-pointed two neighbours or more and during
\* which the arena ran out
C16_RelinkedAndRanOut == last.op = "Split" /\ last.relinked /\ last.failed

\* the three neighbour slots of a node
NeighborSlots == {"BaseNeighbor", "LeftNeighbor", "RightNeighbor"}

\* the leaves of the trees of patch p
LiveLeaves(ns, p) == {id \in Live(ns, p) : IsLeaf(ns[id])}

\* leaf id of patch p has all its non-null neighbours among the leaves, each
\* with a slot that refers back to it
Reciprocal(ns, id) ==
  \A f \in NeighborSlots : ns[id][f] # Null =>
     /\ IsLeaf(ns[ns[id][f]])
     /\ \E g \in NeighborSlots : ns[ns[id][f]][g] = id

\* C17 (leaf neighbour reciprocity): as long as no allocation has failed since
\* the Patch::Reset of a patch, every non-null neighbour slot of every leaf of
\* its trees refers to a leaf, and one of the three slots of that leaf refers
\* back.
C17_LeafReciprocity ==
  \A p \in TreePatches : ~allocFailed[p] => \A id \in LiveLeaves(nodes, p) : Reciprocal(nodes, id)

\* C17 witness: after Split calls none of which failed, a leaf with three
\* neighbours, and a leaf that holds in a side slot a neighbour which has it
\* as its base neighbour (the two are one level apart)
C17_NeighborsOnAllSides ==
  \E p \in TreePatches : /\ ~allocFailed[p]
     /\ \E id \in LiveLeaves(nodes, p) : (\A f \in NeighborSlots : nodes[id][f] # Null)
     /\ \E id2 \in LiveLeaves(nodes, p) : \E g \in {"LeftNeighbor", "RightNeighbor"} :
           nodes[id2][g] # Null /\ nodes[nodes[id2][g]].BaseNeighbor = id2

\* the nodes at and below tri, each with the footprint and the heap index the
\* walks of the tree pass along with it, and its depth
RECURSIVE Triangles(_, _, _, _, _, _, _)
Triangles(ns, tri, left, right, apex, node, depth) ==
  {[tri |-> tri, left |-> left, right |-> right, apex |-> apex, node |-> node, depth |-> depth]} \cup
  (IF IsLeaf(ns[tri]) THEN {}
   ELSE Triangles(ns, ns[tri].LeftChild, apex, left, Center(left, right), 2 * node, depth + 1)
        \cup Triangles(ns, ns[tri].RightChild, right, apex, Center(left, right), 2 * node + 1, depth + 1))

\* the nodes of the tree of baseLeft and of the tree of baseRight of patch p
LeftTriangles(ns, p) == Triangles(ns, baseLeft(p), <<0, PATCH_SIZE>>, <<PATCH_SIZE, 0>>, <<0, 0>>, 1, 0)
RightTriangles(ns, p) == Triangles(ns, baseRight(p), <<PATCH_SIZE, 0>>, <<0, PATCH_SIZE>>, <<PATCH_SIZE, PATCH_SIZE>>, 1, 0)

\* the triangles Patch::RecursComputeVariance visits at and below a footprint
RECURSIVE VarianceWalk(_, _, _, _)
VarianceWalk(left, rght, apex, node) ==
  {[left |-> left, right |-> rght, apex |-> apex, node |-> node]} \cup
  (IF Abs(left[1] - rght[1]) >= 4 \/ Abs(left[2] - rght[2]) >= 4
   THEN VarianceWalk(apex, left, Center(left, rght), 2 * node) \cup VarianceWalk(rght, apex, Center(left, rght), 2 * node + 1)
   ELSE {})
LeftVarianceWalk == VarianceWalk(<<0, PATCH_SIZE>>, <<PATCH_SIZE, 0>>, <<0, 0>>, 1)
RightVarianceWalk == VarianceWalk(<<PATCH_SIZE, 0>>, <<0, PATCH_SIZE>>, <<PATCH_SIZE, PATCH_SIZE>>, 1)

\* RecursTessellate's "we can not tessellate further in at least one dimension"
MinFootprint(left, right) == Abs(left[1] - right[1]) <= 1 /\ Abs(left[2] - right[2]) <= 1
\* the shifted sums are the midpoint of the hypotenuse
ExactMidpoint(left, right) ==
  2 * Center(left, right)[1] = left[1] + right[1] /\ 2 * Center(left, right)[2] = left[2] + right[2]
\* the depth at which the footprint of PATCH_SIZE is down to one unit
MaxDepth == 2 * PatchLog
\* the nodes of two trees of that depth, less the roots
MaxPatchNodes == 2 ^ (MaxDepth + 2) - 4

\* C18 (minimum footprint): in the trees Tessellate grows, no node whose
\* hypotenuse endpoints differ by at most 1 in both axes has been split,
\* directly or as a forced split; no node lies deeper than 2 * log2(PATCH_SIZE);
\* the midpoint the walks compute for a node that has children, and the ones
\* RecursComputeVariance computes, are the exact midpoints; and the patch
\* holds at most as many arena nodes as two trees of that depth have.
C18_MinimumFootprint ==
  /\ \A p \in TreePatches :
       /\ \A t \in LeftTriangles(nodes, p) \cup RightTriangles(nodes, p) :
             /\ t.depth <= MaxDepth
             /\ IsBranch(nodes[t.tri]) => (~MinFootprint(t.left, t.right) /\ ExactMidpoint(t.left, t.right))
       /\ Cardinality(Live(nodes, p) \ RootIds) <= MaxPatchNodes
  /\ \A t \in LeftVarianceWalk \cup RightVarianceWalk : ExactMidpoint(t.left, t.right)

\* C18 witness: Tessellate returned with nodes left in the arena and a leaf of
\* minimum footprint in the tree, at a heap index for which no variance is kept
C18_StoppedAtOneUnit ==
  /\ last.op = "Tessellate" /\ last.ret /\ ~last.failed
  /\ \E p \in TreePatches : \E t \in LeftTriangles(nodes, p) \cup RightTriangles(nodes, p) :
        IsLeaf(nodes[t.tri]) /\ MinFootprint(t.left, t.right) /\ t.depth = MaxDepth /\ t.node >= TableSize

\* the grid position of the vertex with index i
VertexPos(i) == <<i % (PATCH_SIZE + 1), i \div (PATCH_SIZE + 1)>>
\* the k-th triangle of an index list: the positions of its three vertices
IndexedTriangle(ind, k) == <<VertexPos(ind[3 * k - 2]), VertexPos(ind[3 * k - 1]), VertexPos(ind[3 * k])>>
\* twice the signed area of the triangle a, b, c
Cross(a, b, c) == (b[1] - a[1]) * (c[2] - a[2]) - (b[2] - a[2]) * (c[1] - a[1])
\* point q lies strictly inside triangle tr
Inside(tr, q) ==
  \/ Cross(tr[1], tr[2], q) > 0 /\ Cross(tr[2], tr[3], q) > 0 /\ Cross(tr[3], tr[1], q) > 0
  \/ Cross(tr[1], tr[2], q) < 0 /\ Cross(tr[2], tr[3], q) < 0 /\ Cross(tr[3], tr[1], q) < 0
\* a triangle of an index list with its coordinates in quarters of a unit
Quartered(tr) == <<(<<4 * tr[1][1], 4 * tr[1][2]>>), (<<4 * tr[2][1], 4 * tr[2][2]>>), (<<4 * tr[3][1], 4 * tr[3][2]>>)>>
\* four points per unit cell of the patch, in quarters of a unit, one inside
\* each of the four triangles the diagonals of the cell cut it into
SamplePoints ==
  UNION {{(<<4 * x + 1, 4 * y + 2>>), (<<4 * x + 3, 4 * y + 2>>), (<<4 * x + 2, 4 * y + 1>>), (<<4 * x + 2, 4 * y + 3>>)} :
         x \in 0 .. (PATCH_SIZE - 1), y \in 0 .. (PATCH_SIZE - 1)}
\* the sum of f over 1 .. n
RECURSIVE SumTo(_, _)
SumTo(f(_), n) == IF n = 0 THEN 0 ELSE f(n) + SumTo(f, n - 1)

\* the index list is three entries per leaf of the trees of patch p, apex first,
\* then left, then right
ThreePerLeaf(ind, ns, p) ==
  /\ Len(ind) = 3 * Cardinality(LiveLeaves(ns, p))
  /\ {<<ind[3 * k - 2], ind[3 * k - 1], ind[3 * k]>> : k \in 1 .. (Len(ind) \div 3)}
       = {<<VertexIndex(t.apex), VertexIndex(t.left), VertexIndex(t.right)>> : t \in PatchLeaves(ns, p)}
  /\ Cardinality({t.tri : t \in PatchLeaves(ns, p)}) = Cardinality(LiveLeaves(ns, p))

\* the triangles of the index list cover the square of the patch exactly once
CoversOnce(ind) ==
  /\ SumTo(LAMBDA k : Abs(Cross(IndexedTriangle(ind, k)[1], IndexedTriangle(ind, k)[2], IndexedTriangle(ind, k)[3])), Len(ind) \div 3)
       = 2 * PATCH_SIZE * PATCH_SIZE
  /\ \A q \in SamplePoints :
       Cardinality({k \in 1 .. (Len(ind) \div 3) : Inside(Quartered(IndexedTriangle(ind, k)), q)}) = 1

\* C19 (index extraction): GenerateIndices leaves in the index list of the
\* patch exactly three entries per leaf of its two trees, in the order apex,
\* left, right, every entry in [0, (PATCH_SIZE+1)^2); the triangles of the list
\* have areas that sum to PATCH_SIZE^2 and every point of the square off their
\* sides lies in exactly one of them; and one more call with the trees as
\* they are yields the same list. This also holds for trees Tessellate left
\* when the arena ran out.
C19_IndexExtraction ==
  (last.op = "GenerateIndices") =>
     /\ ThreePerLeaf(indices[last.patch], nodes, last.patch)
     /\ \A i \in DOMAIN indices[last.patch] : indices[last.patch][i] \in 0 .. ((PATCH_SIZE + 1) * (PATCH_SIZE + 1) - 1)
     /\ CoversOnce(indices[last.patch])
     /\ GenerateIndices(indices[last.patch], nodes, last.patch) = indices[last.patch]

\* C19 witness: GenerateIndices replaced a list of another length, with the
\* leaves of trees that Tessellate left when the arena ran out
C19_ListReplacedAfterExhaustion ==
  /\ last.op = "GenerateIndices" /\ last.before > 0 /\ last.before # Len(indices[last.patch])
  /\ allocFailed[last.patch]
  /\ Cardinality(LiveLeaves(nodes, last.patch)) >= 8

\* a footprint moved by the origin of patch p
Translated(t, p) ==
  [left |-> <<t.left[1] + Coors(p)[1], t.left[2] + Coors(p)[2]>>, right |-> <<t.right[1] + Coors(p)[1], t.right[2] + Coors(p)[2]>>,
   apex |-> <<t.apex[1] + Coors(p)[1], t.apex[2] + Coors(p)[2]>>]
\* the footprint of a visit of RecursTessellate
FootprintOf(v) == [left |-> v.left, right |-> v.right, apex |-> v.apex]

\* visit v of RecursTessellate in patch p agrees with the walk of RecursRender
\* over the tree ts, and, where it reads the variance table, with the walk of
\* RecursComputeVariance vw that filled the table
InLockStep(v, p, ts, vw) ==
  /\ \E t \in ts : t.tri = v.tri /\ t.node = v.node /\ Translated(t, p) = FootprintOf(v)
  /\ v.read => \E t \in vw : t.node = v.node /\ t.node < TableSize /\ Translated(t, p) = FootprintOf(v)

\* C20 (lock-step walks): every node RecursTessellate was entered for came with
\* the heap index and, moved by the patch origin, the footprint that RecursRender
\* derives for that node; where RecursTessellate reads the variance table, the
\* entry is the one RecursComputeVariance stored for that same triangle of that
\* tree; and the table indices the walks use are in 1 .. 2^VARIANCE_DEPTH - 1,
\* entry 0 being never written.
C20_LockStepWalks ==
  /\ (last.op = "Tessellate") =>
        \A v \in last.visits :
           /\ v.node >= 1
           /\ v.read => v.node < TableSize
           /\ \/ InLockStep(v, last.patch, LeftTriangles(nodes, last.patch), LeftVarianceWalk)
              \/ InLockStep(v, last.patch, RightTriangles(nodes, last.patch), RightVarianceWalk)
  /\ \A t \in LeftVarianceWalk \cup RightVarianceWalk : t.node >= 1
  /\ \A p \in Patches : /\ DOMAIN varianceLeft[p] = 0 .. (TableSize - 1) /\ varianceLeft[p][0] = 0
                         /\ DOMAIN varianceRight[p] = 0 .. (TableSize - 1) /\ varianceRight[p][0] = 0

\* C20 witness: Tessellate of a patch whose origin is not the map's walked
\* nodes whose variance it read from the table and nodes below the depth of
\* the table
C20_WalkedBelowTheTable ==
  /\ last.op = "Tessellate" /\ Coors(last.patch) # <<0, 0>>
  /\ \E v \in last.visits : v.read /\ v.node > 1
  /\ \E v \in last.visits : v.node >= TableSize

\* the variance table currentVariance points at while RecursTessellate walks
\* the tree that holds the node of visit v
TableOf(v, p) ==
  IF \E t \in LeftTriangles(nodes, p) : t.tri = v.tri THEN varianceLeft[p] ELSE varianceRight[p]
\* the longer extent of the hypotenuse of visit v
FootprintSize(v) == Max(Abs(v.left[1] - v.right[1]), Abs(v.left[2] - v.right[2]))
\* the scaled error of visit v exceeds 1, with the camera at distance dist and
\* view radius viewRadius: variances are in thousandths, varianceMaxLimit is
\* 0.35 * viewRadius and the LOD factor is 1 / max(1, dist * 300 / viewRadius)
ErrorExceedsOne(v, tab, dist, viewRadius) ==
  IF v.node < TableSize
  THEN IF dist * 300 > viewRadius
       THEN Min(tab[v.node], 350 * viewRadius) * PATCH_SIZE * FootprintSize(v) * viewRadius > 1000 * dist * 300
       ELSE Min(tab[v.node], 350 * viewRadius) * PATCH_SIZE * FootprintSize(v) > 1000
  ELSE TRUE
\* RecursTessellate was entered for the two children of the node of visit v
Descended(vs, ns, v) ==
  /\ \E c \in vs : c.tri = ns[v.tri].LeftChild /\ c.node = 2 * v.node
  /\ \E c \in vs : c.tri = ns[v.tri].RightChild /\ c.node = 2 * v.node + 1
\* RecursTessellate was entered for none of the children of the node of visit v
NotDescended(vs, ns, v) ==
  \A c \in vs : c.node \notin {2 * v.node, 2 * v.node + 1} \/ c.tri \notin {ns[v.tri].LeftChild, ns[v.tri].RightChild}

\* C21 (split decision): at every node RecursTessellate reached, Split was
\* invoked exactly if the footprint exceeds 1 in some axis and the scaled
\* error exceeds 1, which it always does at heap indices of 2^VARIANCE_DEPTH
\* or more, whatever the camera distance; such a node has children after the
\* call unless the arena ran out; and the walk entered the children exactly
\* if Split was invoked and the node has children after it.
C21_SplitDecision ==
  (last.op = "Tessellate") =>
     \A v \in last.visits :
        /\ v.invoked <=> (/\ ~MinFootprint(v.left, v.right)
                          /\ ErrorExceedsOne(v, TableOf(v, last.patch), frame.dist[last.patch], frame.viewRadius))
        /\ (v.node >= TableSize /\ ~MinFootprint(v.left, v.right)) => (v.invoked /\ (IsBranch(nodes[v.tri]) \/ last.failed))
        /\ IF v.invoked /\ IsBranch(nodes[v.tri]) THEN Descended(last.visits, nodes, v) ELSE NotDescended(last.visits, nodes, v)

\* C21 witness: a Tessellate call with a far camera that left a root alone,
\* though a forced split had given it children, that split a node below the
\* depth of the table, and that invoked Split on a node which stayed a leaf
C21_AllDecisions ==
  /\ last.op = "Tessellate" /\ frame.dist[last.patch] > 0
  /\ \E v \in last.visits : ~v.invoked /\ v.read /\ IsBranch(nodes[v.tri])
  /\ \E v \in last.visits : v.invoked /\ v.node >= TableSize /\ IsBranch(nodes[v.tri])
  /\ \E v \in last.visits : v.invoked /\ IsLeaf(nodes[v.tri])

\* the tables of patch p are what ComputeVariance builds from heights vs
TablesBuiltFrom(vl, vr, vs) ==
  /\ vl = ComputeVarianceLeft(ZeroTable, vs)
  /\ vr = ComputeVarianceRight(ZeroTable, vs)

\* a step keeps the dirty flag of patch p in line with the calls: set by every
\* UpdateHeightMap and whenever a cached height changes, cleared by
\* ComputeVariance, which has rebuilt both tables by then, and by nothing else
DirtyStep(p) ==
  /\ (last'.op = "UpdateHeightMap" /\ last'.patch = p) => isDirty'[p]
  /\ (vertices'[p] # vertices[p]) => isDirty'[p]
  /\ (last'.op = "ComputeVariance" /\ last'.patch = p) =>
        (~isDirty'[p] /\ TablesBuiltFrom(varianceLeft'[p], varianceRight'[p], vertices'[p]))
  /\ (isDirty'[p] # isDirty[p]) => (last'.patch = p /\ last'.op = (IF isDirty'[p] THEN "UpdateHeightMap" ELSE "ComputeVariance"))

\* C22 (dirty flag): every patch is dirty from construction; every
\* UpdateHeightMap call leaves it dirty, and it stays dirty until the next
\* ComputeVariance call, which clears the flag with both tables rebuilt; so
\* whenever isDirty is false, both variance tables are what ComputeVariance
\* computes from the heights the patch has cached.
C22_DirtyFlag ==
  /\ \A p \in Patches : isDirty[p]
  /\ [](\A p \in Patches : ~isDirty[p] => TablesBuiltFrom(varianceLeft[p], varianceRight[p], vertices[p]))
  /\ [][\A p \in Patches : DirtyStep(p)]_vars

\* C22 witness: ComputeVariance cleared the flag of a patch whose cached
\* heights, after deformations of parts of it, are those of no single map, and
\* whose two tables differ
C22_CleanAfterPartialUpdate ==
  /\ last.op = "ComputeVariance" /\ ~isDirty[last.patch]
  /\ \A k \in AllHeightMaps : vertices[last.patch] # HeightMap(k)
  /\ varianceLeft[last.patch] # varianceRight[last.patch]

=============================================================================
